---- MODULE Spec2Model ----
(***************************************************************************)
(* A model of the operation execution core of Into (ydin):                 *)
(*   - PiiSimpleProcessor   (src/ydin/PiiSimpleProcessor.cc)               *)
(*   - PiiThreadedProcessor (src/ydin/PiiThreadedProcessor.cc)             *)
(* The flow controller, the input socket and the wait condition are        *)
(* collaborators whose code is not part of the sources; they are modelled  *)
(* from their documented contract.                                         *)
(* And a model of the message container of Into (core):                    *)
(*   - PiiVariant and its type ids (src/core/PiiVariant.h,                 *)
(*     src/ydin/PiiYdinTypes.h)                                            *)
(* PiiVariant.cc is not part of the sources: the copy constructor, the     *)
(* assignment, the destructor and the converter map are modelled from      *)
(* their documented contract.                                              *)
(***************************************************************************)
EXTENDS Integers, Sequences, FiniteSets, TLC

\* ------------------------------------------------------------------ bounds
\* Capacity of the input socket's queue.
QueueCapacity == 1
\* Number of objects that are sent between two check(true) calls.
MaxObjects == 3
\* Depth of nested tryToReceive calls on one call stack.
MaxDepth == 2
\* process() calls counted after a pause() or stop() request.
MaxAfter == 2
\* Type ids 0 .. MaxLowTag are all classified; above that, sampled ids.
MaxLowTag == 255
\* Number of heap cells that can hold the payload of a large object.
MaxHeap == 3
\* Number of setConverter calls made after the static initialisation.
MaxSets == 2

\* Threads that deliver objects to the synchronous operation.
Senders == {"s1", "s2"}
\* Messages carried by execution exceptions.
Msgs == {"m1", "m2"}

\* ------------------------------------------------------- shared vocabulary
States == {"Stopped", "Starting", "Running", "Pausing", "Paused", "Stopping",
           "Interrupted"}
TagKinds == {"sync", "reconf", "pause", "stop", "resume", "bad"}
NoObj == [k |-> "none", id |-> 0, g |-> FALSE]
NoExc == [code |-> "none", msg |-> "none"]
NoEvent == [op |-> "none", path |-> "none", ret |-> "none", err |-> <<>>,
            exc |-> NoExc]

VARIABLES
    \* --- synchronous processor ---
    state,        \* PiiOperation::State of the operation driven by PiiSimpleProcessor
    bReset,       \* PiiSimpleProcessor::_bReset
    bProcessing,  \* PiiSimpleProcessor::_bProcessing
    hasInputs,    \* _pFlowController != 0
    queue,        \* objects buffered in the input socket
    stack,        \* per sender: the tryToReceive frames that released the lock
    cpc,          \* control thread inside stop(State): the hook it still has to call
    ev,           \* the last call made on the processor and how it ended
    nextId,       \* id of the next object sent
    dataIds,      \* ids of the payload objects accepted by the socket, in order
    handed,       \* ids handed to process(), in order
    excSeen,      \* an execution exception was raised since check(true)
    sg            \* history: the last setState call and whether the state mutex
                  \* was held, the last finished dispatch and its calls, and the
                  \* numbers of Processable verdicts and process() calls

VARIABLES
    \* --- threaded processor ---
    tstate,        \* PiiOperation::State of the operation driven by PiiThreadedProcessor
    tHasInputs,    \* _pFlowController != 0
    tqueue,        \* objects buffered in the input socket
    sig,           \* _inputCondition holds a pending wake-up signal
    wpc,           \* where the worker thread is ("none": no thread)
    wv,            \* the verdict the worker is dispatching, or the name it applied
    wexc,          \* the exception the worker is handling
    intrPending,   \* interrupt() has released the lock and not yet called wakeOne()
    bMustReconfigure,    \* PiiThreadedProcessor::_bMustReconfigure
    strPropertySetName,  \* PiiThreadedProcessor::_strPropertySetName
    rpc,           \* reconfigure() has stored the name and not yet set the flag
    tev,           \* the last call made on the processor and how it ended
    scen,          \* stop()/interrupt() was called on an idle operation and
                   \* neither an admission nor another control call followed
    wdid,          \* the worker queried the flow controller or called process()
                   \* since scen was set
    tg             \* history: the last setState call and whether the state mutex
                   \* was held, the last finished dispatch and its calls, whether
                   \* an object accepted since the last setState call still waits
                   \* for a flow controller query,
                   \* and the process() calls started since pause()/stop() acted

VARIABLES
    \* --- type ids ---
    tag,           \* the type id handed to the category tests
    tres           \* what the category tests returned for it

VARIABLES
    \* --- PiiVariant objects ---
    vs,            \* per slot: the PiiVariant that lives there (_pVTable, _uiType, union)
    made,          \* history: how the slot's value came to be (constructor, type, value)
    heap,          \* the heap cells allocated with new
    herr           \* a delete of a cell that is not allocated happened

VARIABLES
    \* --- converter registry ---
    reg,           \* PiiVariant::converterMap(): pairs <<key, function>>
    lastSet,       \* history: per <<fromType, toType>> the function of the last
                   \* setConverter call for exactly that pair
    nset,          \* number of setConverter calls made
    cres           \* the last convertTo / converter / canConvert call and its result

svars == <<state, bReset, bProcessing, hasInputs, queue, stack, cpc, ev,
           nextId, dataIds, handed, excSeen, sg>>

tvars == <<tstate, tHasInputs, tqueue, sig, wpc, wv, wexc, intrPending,
           bMustReconfigure, strPropertySetName, rpc, tev, scen, wdid, tg>>

tagvars == <<tag, tres>>
objvars == <<vs, made, heap, herr>>
convvars == <<reg, lastSet, nset, cres>>
pvars == <<tagvars, objvars, convvars>>

vars == <<svars, tvars, pvars>>

\* ------------------------------------------ collaborators (documented contract)
\* PiiInputSocket::canReceive(): the queue has room.
CanReceive(q) == Len(q) < QueueCapacity

\* PiiFlowController::prepareProcess() throws on a synchronization error.
FlowThrows(q) == q # <<>> /\ Head(q).k = "bad"

\* PiiFlowController::prepareProcess(): the verdict for the head of the queue.
FlowVerdict(q) ==
    IF q = <<>> THEN "IncompleteState"
    ELSE CASE Head(q).k = "data"   -> "ProcessableState"
           [] Head(q).k = "sync"   -> "SynchronizedState"
           [] Head(q).k = "reconf" -> "ReconfigurableState"
           [] Head(q).k = "pause"  -> "PausedState"
           [] Head(q).k = "stop"   -> "FinishedState"
           [] Head(q).k = "resume" -> "ResumedState"
           [] OTHER                -> "IncompleteState"

\* PiiBasicOperation::check(reset) resets the input sockets.
SocketResetQueue(q, reset) == IF reset THEN <<>> ELSE q

\* Mutation: operationPaused() may return.
OperationPausedMayReturn == {"ok", "Paused"}

\* Exception codes each user callback / hook can raise ("ok": returns).
ProcessOutcomes == {"ok", "Paused", "Error", "Finished"}
ApplyPropertySetOutcomes == {"ok", "Error"}
OperationPausedOutcomes == {"Paused"}
OperationStoppedOutcomes == {"Finished"}
OperationResumedOutcomes == {"ok", "Error"}

\* ------------------------------------------------ the dispatch switch
\* Mutation: the label of PausedState stands below the call of operationPaused().
SwitchCallsPausedStops(v) ==
    CASE v = "ProcessableState"    -> <<"process">>
      [] v = "ReconfigurableState" -> <<"applyPropertySet">>
      [] v = "PausedState"   -> <<"operationStopped", "operationResumed">>
      [] v = "FinishedState" -> <<"operationStopped", "operationResumed">>
      [] v = "ResumedState"  -> <<"operationResumed">>
      [] OTHER -> <<>>

\* Mutation: the case of ProcessableState is entered for SynchronizedState too.
SwitchCallsSynchronizedProcesses(v) ==
    CASE v \in {"ProcessableState", "SynchronizedState"} -> <<"process">>
      [] v = "ReconfigurableState" -> <<"applyPropertySet">>
      [] v = "PausedState"   -> <<"operationPaused", "operationStopped", "operationResumed">>
      [] v = "FinishedState" -> <<"operationStopped", "operationResumed">>
      [] v = "ResumedState"  -> <<"operationResumed">>
      [] OTHER -> <<>>

\* The callbacks the switch statement enters for a verdict, in order; a
\* case without break falls through to the next one.
SwitchCalls(v) ==
    CASE v = "ProcessableState"    -> <<"process">>
      [] v = "ReconfigurableState" -> <<"applyPropertySet">>
      [] v = "PausedState"   -> <<"operationPaused", "operationStopped", "operationResumed">>
      [] v = "FinishedState" -> <<"operationStopped", "operationResumed">>
      [] v = "ResumedState"  -> <<"operationResumed">>
      [] OTHER -> <<>>

CallOutcomes(c) ==
    CASE c = "process"          -> ProcessOutcomes
      [] c = "applyPropertySet" -> ApplyPropertySetOutcomes
      [] c = "operationPaused"  -> OperationPausedOutcomes
      [] c = "operationStopped" -> OperationStoppedOutcomes
      [] c = "operationResumed" -> OperationResumedOutcomes

\* The runs of the callbacks cs after the calls done: <<calls made, outcome>>;
\* the run stops at the first callback that throws.
RECURSIVE RunCalls(_, _)
RunCalls(cs, done) ==
    IF cs = <<>> THEN {<<done, "ok">>}
    ELSE LET c == Head(cs) IN
         {<<Append(done, c), o>> : o \in CallOutcomes(c) \ {"ok"}}
         \cup (IF "ok" \in CallOutcomes(c)
               THEN RunCalls(Tail(cs), Append(done, c)) ELSE {})

\* sendSyncEvents() precedes the switch.
Dispatch(v) == RunCalls(SwitchCalls(v), <<"sendSyncEvents">>)

\* --------------------------------------------- PiiSimpleProcessor: conditions
\* Mutation: the arming flag is not tested.
DiscardsNever(reset) == FALSE

\* tryToReceive: "if (!_bReset) return true"
Discards(reset) == ~reset

\* tryToReceive: "state member_of (Stopped, Paused)" -> setState(Running)
WakesUp(st) == st \in {"Stopped", "Paused"}

\* Mutation: no recursion guard.
GuardNever(processing) == FALSE

\* tryToReceive: "if (_bProcessing) return true"
GuardReturns(processing) == processing

\* Mutation: the loop body runs once.
LoopOnce(reset) == FALSE

\* tryToReceive: "while (_bReset)"
LoopAgain(reset) == reset

\* Mutation: the handler does not look at the state.
PausesOnAnyState(code, st) == code = "Paused"

\* tryToReceive handler: Paused, and nobody stopped the operation meanwhile
PausesOn(code, st) == code = "Paused" /\ st # "Stopped"

\* Mutation: every handled exception is reported.
EmitsAlways(code) == TRUE

\* tryToReceive handler: "if (ex.code() == Error) emit errorOccured"
EmitsError(code) == code = "Error"

\* Mutation: a rejected admission reports success.
RejectValueTrue == "true"

\* tryToReceive: value returned when the socket cannot receive
RejectValue == "false"

\* Mutation: the handler of tryToReceive writes the state without relocking.
SimpleLockedSitesNoRelock ==
    {"tryToReceive:38", "start:163", "start:170", "interrupt:177", "stop:220",
     "stop:228"}

\* The setState calls of PiiSimpleProcessor that are made with the state
\* mutex held: tryToReceive:38 (locker of line 31), tryToReceive:123 and :134
\* (relock of line 116), start (locker of line 152), interrupt (locker of
\* line 175), stop (lock of line 213; the unlock follows the write).
SimpleLockedSites ==
    {"tryToReceive:38", "tryToReceive:123", "tryToReceive:134", "start:163",
     "start:170", "interrupt:177", "stop:220", "stop:228"}

NoDispatch == [v |-> "none", calls |-> <<>>]
NoHistory == [site |-> "none", held |-> TRUE, last |-> NoDispatch, nv |-> 0, np |-> 0]

\* setState() is called at the given line.
SetStateAt(g, site) == [g EXCEPT !.site = site, !.held = site \in SimpleLockedSites]

\* A dispatch for verdict v has ended after the given calls.
Dispatched(g, v, calls) ==
    [g EXCEPT !.last = [v |-> v, calls |-> calls],
              !.np = @ + Cardinality({i \in DOMAIN calls : calls[i] = "process"})]

Top(t) == stack[t][Len(stack[t])]
Below(t) == SubSeq(stack[t], 1, Len(stack[t]) - 1)
InDispatch(t) == stack[t] # <<>> /\ Top(t).pc = "dispatch"

\* A sender may call tryToReceive from outside, or from inside process().
CanCall(t) ==
    \/ stack[t] = <<>>
    \/ /\ InDispatch(t)
       /\ Top(t).v = "ProcessableState"
       /\ Len(stack[t]) < MaxDepth

\* Objects a sender may deliver now.
NewObjects ==
    {[k |-> kind, id |-> nextId, g |-> FALSE] :
        kind \in {x \in {"data"} \cup TagKinds : nextId <= MaxObjects}}

Event(op, path, ret, err) ==
    [op |-> op, path |-> path, ret |-> ret, err |-> err, exc |-> NoExc]

\* A control call that returns nothing, calls no hook and emits no error.
ControlEvent == Event("control", "none", "none", <<>>)

\* One round of the do-loop of tryToReceive, entered with the lock held:
\* stk is the caller's stack below this call, st/q/bp the state, queue and
\* _bProcessing at this point.
LoopRound(t, op, stk, st, q, bp, nid, dids, g) ==
    /\ state' = st
    /\ nextId' = nid
    /\ dataIds' = dids
    /\ UNCHANGED <<bReset, hasInputs, cpc>>
    /\ IF FlowThrows(q)
       THEN \* prepareProcess() throws: unlock and rethrow
            \E m \in Msgs :
              /\ stack' = [stack EXCEPT ![t] = Append(stk,
                     [pc |-> "fcThrown", v |-> "none", obj |-> NoObj,
                      exc |-> [code |-> "Error", msg |-> m]])]
              /\ queue' = q
              /\ bProcessing' = bp
              /\ excSeen' = TRUE
              /\ handed' = handed
              /\ sg' = g
              /\ ev' = Event(op, "fcThrow", "none", <<>>)
       ELSE IF FlowVerdict(q) = "IncompleteState"
       THEN \* break; return true
            /\ stack' = [stack EXCEPT ![t] = stk]
            /\ queue' = q
            /\ bProcessing' = bp
            /\ UNCHANGED <<excSeen, handed>>
            /\ sg' = g
            /\ ev' = Event(op, "incomplete", "true", <<>>)
       ELSE \* _bProcessing = true; unlock; dispatch
            /\ stack' = [stack EXCEPT ![t] = Append(stk,
                   [pc |-> "dispatch", v |-> FlowVerdict(q), obj |-> Head(q),
                    exc |-> NoExc])]
            /\ queue' = Tail(q)
            /\ bProcessing' = TRUE
            /\ handed' = IF FlowVerdict(q) = "ProcessableState"
                         THEN Append(handed, Head(q).id) ELSE handed
            /\ UNCHANGED excSeen
            /\ sg' = [g EXCEPT !.nv = IF FlowVerdict(q) = "ProcessableState"
                                      THEN @ + 1 ELSE @]
            /\ ev' = Event(op, "dispatch", "none", <<>>)

\* PiiSimpleProcessor::tryToReceive, from the call to the first unlock or return.
TryToReceive(t, o) ==
    /\ hasInputs
    /\ CanCall(t)
    /\ IF Discards(bReset)
       THEN /\ ev' = Event("tryToReceive", "discard", "true", <<>>)
            /\ UNCHANGED <<state, bReset, bProcessing, hasInputs, queue, stack,
                           cpc, nextId, dataIds, handed, excSeen, sg>>
       ELSE LET st1 == IF WakesUp(state) THEN "Running" ELSE state
                g1 == IF WakesUp(state) THEN SetStateAt(sg, "tryToReceive:38") ELSE sg
            IN
            IF ~CanReceive(queue)
            THEN /\ state' = st1
                 /\ sg' = g1
                 /\ ev' = Event("tryToReceive", "reject", RejectValue, <<>>)
                 /\ UNCHANGED <<bReset, bProcessing, hasInputs, queue, stack,
                                cpc, nextId, dataIds, handed, excSeen>>
            ELSE LET q1 == Append(queue, [o EXCEPT !.g = bProcessing])
                     nid == nextId + 1
                     dids == IF o.k = "data" THEN Append(dataIds, o.id) ELSE dataIds
                 IN
                 IF GuardReturns(bProcessing)
                 THEN /\ state' = st1
                      /\ queue' = q1
                      /\ nextId' = nid
                      /\ dataIds' = dids
                      /\ sg' = g1
                      /\ ev' = Event("tryToReceive", "guard", "true", <<>>)
                      /\ UNCHANGED <<bReset, bProcessing, hasInputs, stack, cpc,
                                     handed, excSeen>>
                 ELSE LoopRound(t, "tryToReceive", stack[t], st1, q1, bProcessing,
                                nid, dids, g1)

\* The dispatch returns normally: relock, clear the flag, loop while armed.
DispatchReturn(t) ==
    /\ InDispatch(t)
    /\ \E run \in Dispatch(Top(t).v) :
         /\ run[2] = "ok"
         /\ IF LoopAgain(bReset)
            THEN LoopRound(t, "loop", Below(t), state, queue, FALSE, nextId, dataIds,
                           Dispatched(sg, Top(t).v, run[1]))
            ELSE /\ stack' = [stack EXCEPT ![t] = Below(t)]
                 /\ bProcessing' = FALSE
                 /\ sg' = Dispatched(sg, Top(t).v, run[1])
                 /\ ev' = Event("loop", "disarmed", "true", <<>>)
                 /\ UNCHANGED <<state, bReset, hasInputs, queue, cpc, nextId,
                                dataIds, handed, excSeen>>

\* Mutation: the handler leaves the recursion guard flag as it is.
HandlerProcessingKeeps(processing) == processing

\* tryToReceive handler: "_bProcessing = false"
HandlerProcessing(processing) == FALSE

\* catch (PiiExecutionException&): relock, clear the flag, decide the state.
Handler(t, exc, g) ==
    /\ stack' = [stack EXCEPT ![t] = Below(t)]
    /\ bProcessing' = HandlerProcessing(bProcessing)
    /\ excSeen' = TRUE
    /\ UNCHANGED <<hasInputs, queue, cpc, nextId, dataIds, handed>>
    /\ IF PausesOn(exc.code, state)
       THEN /\ state' = "Paused"
            /\ sg' = SetStateAt(g, "tryToReceive:123")
            /\ UNCHANGED bReset
            /\ ev' = [Event("handler", "paused", "true", <<>>) EXCEPT !.exc = exc]
       ELSE /\ bReset' = FALSE
            /\ state' = "Stopped"
            /\ sg' = SetStateAt(g, "tryToReceive:134")
            /\ ev' = [Event("handler", "stopped", "true",
                            IF EmitsError(exc.code) THEN <<exc.msg>> ELSE <<>>)
                      EXCEPT !.exc = exc]

\* The dispatch (process(), applyPropertySet() or a hook) throws.
DispatchThrow(t) ==
    /\ InDispatch(t)
    /\ \E run \in Dispatch(Top(t).v) : \E m \in Msgs :
         /\ run[2] # "ok"
         /\ Handler(t, [code |-> run[2], msg |-> m],
                    Dispatched(sg, Top(t).v, run[1]))

\* The exception of the flow controller reaches the handler.
FlowRethrow(t) ==
    /\ stack[t] # <<>>
    /\ Top(t).pc = "fcThrown"
    /\ Handler(t, Top(t).exc, sg)

\* No sender is inside tryToReceive.
Quiescent == \A t \in Senders : stack[t] = <<>>

\* check(): "_bProcessing = false"
CheckProcessing(processing) == FALSE

\* PiiSimpleProcessor::check, with the reset of the sockets done by the operation.
Check(reset) ==
    /\ Quiescent
    /\ cpc = "idle"
    /\ bProcessing' = CheckProcessing(bProcessing)
    /\ bReset' = (IF reset THEN TRUE ELSE bReset)
    /\ queue' = SocketResetQueue(queue, reset)
    /\ nextId' = (IF reset THEN 1 ELSE nextId)
    /\ dataIds' = (IF reset THEN <<>> ELSE dataIds)
    /\ handed' = (IF reset THEN <<>> ELSE handed)
    /\ excSeen' = (IF reset THEN FALSE ELSE excSeen)
    /\ sg' = (IF reset THEN [sg EXCEPT !.last = NoDispatch, !.nv = 0, !.np = 0] ELSE sg)
    /\ ev' = ControlEvent
    /\ UNCHANGED <<state, hasInputs, stack, cpc>>

\* A process() call of the operation is in progress.
InProcess == \E t \in Senders : \E i \in DOMAIN stack[t] :
    stack[t][i].pc = "dispatch" /\ stack[t][i].v = "ProcessableState"

\* PiiSimpleProcessor::check called while a process() call is in progress:
\* check() takes no lock, its write to _bProcessing races with the senders
\* and either is seen by them or is not.
CheckDuring(reset) ==
    /\ InProcess
    /\ cpc = "idle"
    /\ bProcessing' \in {CheckProcessing(bProcessing), bProcessing}
    /\ bReset' = (IF reset THEN TRUE ELSE bReset)
    /\ queue' = SocketResetQueue(queue, reset)
    /\ nextId' = (IF reset THEN 1 ELSE nextId)
    /\ dataIds' = (IF reset THEN <<>> ELSE dataIds)
    /\ handed' = (IF reset THEN <<>> ELSE handed)
    /\ excSeen' = (IF reset THEN FALSE ELSE excSeen)
    /\ sg' = (IF reset THEN [sg EXCEPT !.last = NoDispatch, !.nv = 0, !.np = 0] ELSE sg)
    /\ ev' = Event("check", "during", "none", <<>>)
    /\ UNCHANGED <<state, hasInputs, stack, cpc>>

\* Mutation: a paused operation is resumed by start() whatever its inputs are.
StartResumesAlways(inputs) == TRUE

\* start(): "if (_pFlowController == 0)" for a Paused operation
StartResumes(inputs) == ~inputs

\* PiiSimpleProcessor::start
Start ==
    /\ cpc = "idle"
    /\ IF state = "Pausing"
       THEN /\ ev' = ControlEvent
            /\ UNCHANGED <<state, sg>>
       ELSE IF state = "Paused"
       THEN IF StartResumes(hasInputs)
            THEN \* operationResumed() is called; what it throws is swallowed
                 /\ state' = "Running"
                 /\ sg' = SetStateAt(sg, "start:163")
                 /\ ev' = Event("control", "operationResumed", "none", <<>>)
            ELSE /\ ev' = ControlEvent
                 /\ UNCHANGED <<state, sg>>
       ELSE /\ state' = "Running"
            /\ sg' = SetStateAt(sg, "start:170")
            /\ ev' = ControlEvent
    /\ UNCHANGED <<bReset, bProcessing, hasInputs, queue, stack, cpc, nextId,
                   dataIds, handed, excSeen>>

\* Mutation: interrupt() leaves the arming flag as it is.
InterruptResetKeeps(reset) == reset

\* interrupt(): "_bReset = false"
InterruptReset(reset) == FALSE

\* PiiSimpleProcessor::interrupt
Interrupt ==
    /\ cpc = "idle"
    /\ bReset' = InterruptReset(bReset)
    /\ state' = "Stopped"
    /\ sg' = SetStateAt(sg, "interrupt:177")
    /\ ev' = ControlEvent
    /\ UNCHANGED <<bProcessing, hasInputs, queue, stack, cpc, nextId, dataIds,
                   handed, excSeen>>

\* Mutation: stop(State) uses the intermediate state for every operation.
IntermediateAlways(inputs) == TRUE

\* stop(State): "if (_pFlowController != 0)" turn into Pausing/Stopping
Intermediate(inputs) == inputs

\* Mutation: stop(State) does not test the state.
SimpleStopActsAlways(st) == TRUE

\* stop(State): "if (_pParentOp->state() == PiiOperation::Running)"
SimpleStopActs(st) == st = "Running"

\* PiiSimpleProcessor::stop(State), up to the unlock
StopTo(finalState) ==
    /\ cpc = "idle"
    /\ ev' = ControlEvent
    /\ IF SimpleStopActs(state)
       THEN IF Intermediate(hasInputs)
            THEN /\ state' = (IF finalState = "Stopped" THEN "Stopping" ELSE "Pausing")
                 /\ sg' = SetStateAt(sg, "stop:220")
                 /\ UNCHANGED cpc
            ELSE /\ state' = finalState
                 /\ sg' = SetStateAt(sg, "stop:228")
                 /\ cpc' = (IF finalState = "Paused" THEN "operationPaused"
                            ELSE "operationStopped")
       ELSE UNCHANGED <<state, cpc, sg>>
    /\ UNCHANGED <<bReset, bProcessing, hasInputs, queue, stack, nextId, dataIds, handed,
                   excSeen>>

\* stop(State): the hook called with the lock released; what it throws is swallowed
StopHook ==
    /\ cpc # "idle"
    /\ cpc' = "idle"
    /\ ev' = Event("control", cpc, "none", <<>>)
    /\ UNCHANGED <<state, bReset, bProcessing, hasInputs, queue, stack, nextId,
                   dataIds, handed, excSeen, sg>>

\* PiiSimpleProcessor::reconfigure
Reconfigure ==
    /\ cpc = "idle"
    /\ \E o \in ApplyPropertySetOutcomes : \E m \in Msgs :
         ev' = IF hasInputs THEN ControlEvent
               ELSE Event("control", "applyPropertySet", "none",
                          IF o = "ok" THEN <<>> ELSE <<m>>)
    /\ UNCHANGED <<state, bReset, bProcessing, hasInputs, queue, stack, cpc,
                   nextId, dataIds, handed, excSeen, sg>>

SimpleInit ==
    /\ state = "Stopped"
    /\ bReset = FALSE
    /\ bProcessing = FALSE
    /\ hasInputs \in BOOLEAN
    /\ queue = <<>>
    /\ stack = [t \in Senders |-> <<>>]
    /\ cpc = "idle"
    /\ ev = NoEvent
    /\ nextId = 1
    /\ dataIds = <<>>
    /\ handed = <<>>
    /\ excSeen = FALSE
    /\ sg = NoHistory

\* ================================================= PiiThreadedProcessor
\* Names of property sets passed to reconfigure().
PropNames == {"p1", "p2"}

\* --- PiiWaitCondition (NoQueue mode, one waiter), from its contract ---
Blocked(pc) == pc \in {"blockedInput", "blockedPaused"}
Woken(pc) == IF pc = "blockedInput" THEN "afterWait"
             ELSE IF pc = "blockedPaused" THEN "resumeCheck" ELSE pc
\* wakeOne(): releases the waiter, or leaves one pending signal.
WakeOneSig(pc, s) == IF Blocked(pc) THEN s ELSE TRUE
\* wakeAll(): releases the waiter and clears the pending signal.
WakeAllSig(pc, s) == FALSE

\* --- conditions of the code ---
\* Mutation: interrupt() does not look at the state.
InterruptSetsAlways(st) == TRUE

\* interrupt: "if (state != Stopped) setState(Interrupted)"
InterruptSets(st) == st # "Stopped"

\* Mutation: the worker does not test the state after waking up.
WaitInterruptedNever(st) == FALSE

\* Mutation: the worker also leaves when a stop was requested.
WaitInterruptedOrStopping(st) == st \in {"Interrupted", "Stopping"}

\* run: "if (state == Interrupted) return" after _inputCondition.wait()
WaitInterrupted(st) == st = "Interrupted"

\* run: "while (state != Interrupted)"
LoopInterrupted(st) == st = "Interrupted"

\* Mutation: stop() acts in every state.
StopActsAlways(st) == TRUE

\* stop / pause: "if (state != Running) return"
StopActs(st) == st = "Running"

\* Mutation: the handler suspends the worker on Finished as well.
ThreadPausesOnFinished(code, st) == code \in {"Paused", "Finished"} /\ st # "Interrupted"

\* run handler: Paused, and not interrupted meanwhile
ThreadPausesOn(code, st) == code = "Paused" /\ st # "Interrupted"

\* Mutation: the completion callback writes the state without the mutex.
ThreadedLockedSitesNoCallback ==
    {"start:69", "interrupt:87", "pause:101", "stop:116", "run:195", "run:244",
     "run:265", "run:272"}

\* The setState calls of PiiThreadedProcessor that are made with the state
\* mutex held: setStopped (synchronized, line 46), start (locker of line 63),
\* interrupt (synchronized, line 84), pause (locker of line 97), stop (locker
\* of line 112), run:195 (synchronized, line 190), run:244 and run:272 (lock of
\* line 238), run:265 (lock of line 251).
ThreadedLockedSites ==
    {"setStopped:48", "start:69", "interrupt:87", "pause:101", "stop:116",
     "run:195", "run:244", "run:265", "run:272"}

NoThreadedHistory ==
    [site |-> "none", held |-> TRUE, last |-> NoDispatch, pend |-> "no", after |-> 0]

ThreadedSetStateAt(g, site) ==
    [g EXCEPT !.site = site, !.held = site \in ThreadedLockedSites, !.pend = "no"]

TEvent(op, path, ret, err) ==
    [op |-> op, path |-> path, ret |-> ret, err |-> err, exc |-> NoExc]

NewThreadedObjects ==
    {[k |-> kind, id |-> 0, g |-> FALSE] : kind \in {"data"} \cup TagKinds}

\* The worker is parked with nothing to do: blocked on the condition with an
\* empty socket.
WorkerIdle == tHasInputs /\ Blocked(wpc) /\ tqueue = <<>>

\* Mutation: an accepted object is not announced to the worker.
AdmitNoWake(pc, s) == [sig |-> s, wpc |-> pc]

\* tryToReceive: "_inputCondition.wakeOne()" after receive()
AdmitWake(pc, s) == [sig |-> WakeOneSig(pc, s), wpc |-> Woken(pc)]

\* Mutation: a full socket is reported as success.
ThreadedRejectValueTrue == "true"

\* tryToReceive: "return false"
ThreadedRejectValue == "false"

\* PiiThreadedProcessor::tryToReceive
ThreadedTryToReceive(o) ==
    /\ tHasInputs
    /\ IF CanReceive(tqueue)
       THEN /\ tqueue' = Append(tqueue, o)
            /\ sig' = AdmitWake(wpc, sig).sig
            /\ wpc' = AdmitWake(wpc, sig).wpc
            /\ tg' = [tg EXCEPT !.pend = IF tstate = "Running" THEN "yes" ELSE @]
            /\ tev' = TEvent("tryToReceive", "accept", "true", <<>>)
       ELSE /\ tev' = TEvent("tryToReceive", "reject", ThreadedRejectValue, <<>>)
            /\ UNCHANGED <<tqueue, sig, wpc, tg>>
    /\ scen' = "none"
    /\ wdid' = FALSE
    /\ UNCHANGED <<tstate, tHasInputs, wv, wexc, intrPending, bMustReconfigure,
                   strPropertySetName, rpc>>

\* PiiThreadedProcessor::check
ThreadedCheck(reset) ==
    /\ sig' = (IF reset THEN WakeAllSig(wpc, sig) ELSE sig)
    /\ wpc' = (IF reset THEN Woken(wpc) ELSE wpc)
    /\ bMustReconfigure' = FALSE
    /\ strPropertySetName' = ""
    /\ tev' = TEvent("control", "none", "none", <<>>)
    /\ tg' = (IF reset /\ tg.pend = "yes" THEN [tg EXCEPT !.pend = "reset"] ELSE tg)
    /\ UNCHANGED <<tstate, tHasInputs, tqueue, wv, wexc, intrPending, rpc, scen,
                   wdid>>

\* start: "if (state == Stopped)" set Starting and start the thread
StartLaunches(st) == st = "Stopped"

\* Mutation: start() signals the condition in every state but Stopped.
StartSignalsAlways(st) == TRUE

\* start: "else if (state == Paused)" wake the thread up
StartSignals(st) == st = "Paused"

\* PiiThreadedProcessor::start; QThread::start() returns once a worker that
\* is still finishing has gone.
ThreadedStart ==
    /\ ~(tstate = "Stopped" /\ wpc # "none")
    /\ IF StartLaunches(tstate)
       THEN /\ tstate' = "Starting"
            /\ tg' = ThreadedSetStateAt(tg, "start:69")
            /\ wpc' = "started"
            /\ UNCHANGED sig
       ELSE IF StartSignals(tstate)
       THEN /\ sig' = WakeOneSig(wpc, sig)
            /\ wpc' = Woken(wpc)
            /\ UNCHANGED <<tstate, tg>>
       ELSE UNCHANGED <<tstate, wpc, sig, tg>>
    /\ tev' = TEvent("start", "none", "none", <<>>)
    /\ scen' = (IF tstate \in {"Stopped", "Paused"} THEN "none" ELSE scen)
    /\ wdid' = (IF tstate \in {"Stopped", "Paused"} THEN FALSE ELSE wdid)
    /\ UNCHANGED <<tHasInputs, tqueue, wv, wexc, intrPending, bMustReconfigure,
                   strPropertySetName, rpc>>

\* PiiThreadedProcessor::interrupt, the synchronized block
ThreadedInterrupt ==
    /\ ~intrPending
    /\ intrPending' = TRUE
    /\ tstate' = (IF InterruptSets(tstate) THEN "Interrupted" ELSE tstate)
    /\ tg' = (IF InterruptSets(tstate) THEN ThreadedSetStateAt(tg, "interrupt:87")
              ELSE tg)
    /\ tev' = TEvent("interrupt", tstate, "none", <<>>)
    /\ scen' = (IF WorkerIdle /\ tstate # "Stopped" THEN "intrIdle"
                ELSE IF scen = "intrIdle" THEN scen ELSE "none")
    /\ wdid' = (IF WorkerIdle /\ tstate # "Stopped" THEN FALSE ELSE wdid)
    /\ UNCHANGED <<tHasInputs, tqueue, sig, wpc, wv, wexc, bMustReconfigure,
                   strPropertySetName, rpc>>

\* PiiThreadedProcessor::interrupt, _inputCondition.wakeOne()
ThreadedInterruptWake ==
    /\ intrPending
    /\ intrPending' = FALSE
    /\ sig' = WakeOneSig(wpc, sig)
    /\ wpc' = Woken(wpc)
    /\ UNCHANGED <<tstate, tHasInputs, tqueue, wv, wexc, bMustReconfigure,
                   strPropertySetName, rpc, tev, scen, wdid, tg>>

\* PiiThreadedProcessor::stop and PiiThreadedProcessor::pause
ThreadedStopTo(target) ==
    /\ tstate' = (IF StopActs(tstate) THEN target ELSE tstate)
    /\ tg' = (IF StopActs(tstate)
              THEN [ThreadedSetStateAt(tg, IF target = "Pausing" THEN "pause:101"
                                           ELSE "stop:116")
                    EXCEPT !.after = 0]
              ELSE tg)
    /\ tev' = TEvent("control", "none", "none", <<>>)
    /\ scen' = (IF StopActs(tstate) /\ target = "Stopping" /\ WorkerIdle
                THEN "stopIdle" ELSE scen)
    /\ wdid' = (IF StopActs(tstate) /\ target = "Stopping" /\ WorkerIdle
                THEN FALSE ELSE wdid)
    /\ UNCHANGED <<tHasInputs, tqueue, sig, wpc, wv, wexc, intrPending,
                   bMustReconfigure, strPropertySetName, rpc>>

\* PiiThreadedProcessor::reconfigure: "_strPropertySetName = propertySetName"
ThreadedReconfigure(name) ==
    /\ rpc = "idle"
    /\ rpc' = "flag"
    /\ strPropertySetName' = name
    /\ UNCHANGED <<tstate, tHasInputs, tqueue, sig, wpc, wv, wexc, intrPending,
                   bMustReconfigure, tev, scen, wdid, tg>>

\* PiiThreadedProcessor::reconfigure: "_bMustReconfigure = true"
ThreadedReconfigureFlag ==
    /\ rpc = "flag"
    /\ rpc' = "idle"
    /\ bMustReconfigure' = TRUE
    /\ UNCHANGED <<tstate, tHasInputs, tqueue, sig, wpc, wv, wexc, intrPending,
                   strPropertySetName, tev, scen, wdid, tg>>

\* PiiThreadedProcessor::wait: QThread::wait(time) is true once no worker runs
\* and false when the time is up
ThreadedWait ==
    /\ tev' = TEvent("wait", "none", IF wpc = "none" THEN "true" ELSE "false", <<>>)
    /\ UNCHANGED <<tstate, tHasInputs, tqueue, sig, wpc, wv, wexc, intrPending,
                   bMustReconfigure, strPropertySetName, rpc, scen, wdid, tg>>

\* --- the worker thread: PiiThreadedProcessor::run ---
\* Mutation: the worker never confirms the start.
BeginConfirmsNever(st) == FALSE

\* Mutation: the worker sets Running whatever happened since start().
BeginConfirmsAlways(st) == TRUE

\* run: "if (state == Starting) setState(Running)"
BeginConfirms(st) == st = "Starting"

\* run: the synchronized block turning Starting into Running
RunBegin ==
    /\ wpc = "started"
    /\ wpc' = "loopTest"
    /\ tstate' = (IF BeginConfirms(tstate) THEN "Running" ELSE tstate)
    /\ tg' = (IF BeginConfirms(tstate) THEN ThreadedSetStateAt(tg, "run:195") ELSE tg)
    /\ UNCHANGED <<tHasInputs, tqueue, sig, wv, wexc, intrPending,
                   bMustReconfigure, strPropertySetName, rpc, tev, scen, wdid>>

\* run: the loop condition and the choice between the two branches
RunLoopTest ==
    /\ wpc = "loopTest"
    /\ wpc' = (IF LoopInterrupted(tstate) THEN "finished"
               ELSE IF tHasInputs THEN "waitInput" ELSE "srcProcess")
    /\ wdid' = (IF ~LoopInterrupted(tstate) /\ ~tHasInputs /\ scen # "none"
                THEN TRUE ELSE wdid)
    /\ tg' = (IF ~LoopInterrupted(tstate) /\ ~tHasInputs
                 /\ tstate \in {"Pausing", "Stopping"} /\ tg.after < MaxAfter
              THEN [tg EXCEPT !.after = @ + 1] ELSE tg)
    /\ UNCHANGED <<tstate, tHasInputs, tqueue, sig, wv, wexc, intrPending,
                   bMustReconfigure, strPropertySetName, rpc, tev, scen>>

\* _inputCondition.wait(): take the pending signal or block
RunWait ==
    /\ wpc \in {"waitInput", "pausedWait"}
    /\ IF sig
       THEN /\ sig' = FALSE
            /\ wpc' = (IF wpc = "waitInput" THEN "afterWait" ELSE "resumeCheck")
       ELSE /\ wpc' = (IF wpc = "waitInput" THEN "blockedInput" ELSE "blockedPaused")
            /\ UNCHANGED sig
    /\ UNCHANGED <<tstate, tHasInputs, tqueue, wv, wexc, intrPending,
                   bMustReconfigure, strPropertySetName, rpc, tev, scen, wdid, tg>>

\* run: after the wait, return if interrupted, else prepareAndProcess()
RunAfterWait ==
    /\ wpc = "afterWait"
    /\ wpc' = (IF WaitInterrupted(tstate) THEN "finished" ELSE "prepare")
    /\ UNCHANGED <<tstate, tHasInputs, tqueue, sig, wv, wexc, intrPending,
                   bMustReconfigure, strPropertySetName, rpc, tev, scen, wdid, tg>>

\* prepareAndProcess: one round of the loop with the lock held, up to the unlock
PrepareAndProcess ==
    /\ wpc = "prepare"
    /\ sig' = WakeAllSig(wpc, sig)
    /\ wdid' = (scen # "none")
    /\ tg' = [tg EXCEPT !.pend = "no", !.last = NoDispatch]
    /\ IF FlowThrows(tqueue)
       THEN \E m \in Msgs :
              /\ wpc' = "catch"
              /\ wexc' = [code |-> "Error", msg |-> m]
              /\ UNCHANGED <<tqueue, wv>>
       ELSE IF FlowVerdict(tqueue) = "IncompleteState"
       THEN /\ wpc' = "loopTest"
            /\ UNCHANGED <<tqueue, wv, wexc>>
       ELSE /\ wpc' = "dispatch"
            /\ wv' = FlowVerdict(tqueue)
            /\ tqueue' = Tail(tqueue)
            /\ UNCHANGED wexc
    /\ UNCHANGED <<tstate, tHasInputs, intrPending, bMustReconfigure,
                   strPropertySetName, rpc, tev, scen>>

\* prepareAndProcess: the dispatch returns, the lock is taken again
ThreadedDispatchReturn ==
    /\ wpc = "dispatch"
    /\ \E r \in Dispatch(wv) :
         /\ r[2] = "ok"
         /\ tg' = [tg EXCEPT !.last = [v |-> wv, calls |-> r[1]]]
    /\ wpc' = "prepare"
    /\ wv' = "none"
    /\ UNCHANGED <<tstate, tHasInputs, tqueue, sig, wexc, intrPending,
                   bMustReconfigure, strPropertySetName, rpc, tev, scen, wdid>>

\* prepareAndProcess: the dispatch throws
ThreadedDispatchThrow ==
    /\ wpc = "dispatch"
    /\ \E r \in Dispatch(wv) : \E m \in Msgs :
         /\ r[2] # "ok"
         /\ wexc' = [code |-> r[2], msg |-> m]
         /\ tg' = [tg EXCEPT !.last = [v |-> wv, calls |-> r[1]]]
    /\ wpc' = "catch"
    /\ wv' = "none"
    /\ UNCHANGED <<tstate, tHasInputs, tqueue, sig, intrPending,
                   bMustReconfigure, strPropertySetName, rpc, tev, scen, wdid>>

\* run, no connected input: processLocked() ends
RunSourceProcess ==
    /\ wpc = "srcProcess"
    /\ \E o \in ProcessOutcomes : \E m \in Msgs :
         IF o = "ok"
         THEN wpc' = "srcReconfigure" /\ UNCHANGED wexc
         ELSE wpc' = "catch" /\ wexc' = [code |-> o, msg |-> m]
    /\ UNCHANGED <<tstate, tHasInputs, tqueue, sig, wv, intrPending,
                   bMustReconfigure, strPropertySetName, rpc, tev, scen, wdid, tg>>

\* run, no connected input: "applyPropertySet(_strPropertySetName)" in the
\* synchronized block; wv keeps the name that was applied
RunSourceReconfigure ==
    /\ wpc = "srcReconfigure"
    /\ IF bMustReconfigure
       THEN \E o \in ApplyPropertySetOutcomes : \E m \in Msgs :
              IF o = "ok"
              THEN /\ wpc' = "srcClear"
                   /\ wv' = strPropertySetName
                   /\ tev' = TEvent("worker", "applyPropertySet", strPropertySetName, <<>>)
                   /\ UNCHANGED wexc
              ELSE /\ wpc' = "catch"
                   /\ wexc' = [code |-> o, msg |-> m]
                   /\ UNCHANGED <<wv, tev>>
       ELSE /\ wpc' = "srcCheck"
            /\ UNCHANGED <<wv, wexc, tev>>
    /\ UNCHANGED <<tstate, tHasInputs, tqueue, sig, intrPending, bMustReconfigure,
                   strPropertySetName, rpc, scen, wdid, tg>>

\* run, no connected input: "_bMustReconfigure = false" after the call;
\* reconfigure() and check() write both fields without the mutex and can
\* run between the call and this assignment
RunSourceClear ==
    /\ wpc = "srcClear"
    /\ wpc' = "srcCheck"
    /\ wv' = "none"
    /\ bMustReconfigure' = FALSE
    /\ UNCHANGED <<tstate, tHasInputs, tqueue, sig, wexc, intrPending,
                   strPropertySetName, rpc, tev, scen, wdid, tg>>

\* Mutation: a source operation does not look for a pause request.
SourcePausesNever(st) == FALSE

\* run: "if (state == Pausing) operationPaused()"
SourcePauses(st) == st = "Pausing"

\* run: "else if (state == Stopping) operationStopped()"
SourceStops(st) == st = "Stopping"

\* run, no connected input: pause or stop spontaneously (the hooks throw)
RunSourceCheck ==
    /\ wpc = "srcCheck"
    /\ IF SourcePauses(tstate)
       THEN \E m \in Msgs : \E c \in OperationPausedOutcomes :
              wpc' = "catch" /\ wexc' = [code |-> c, msg |-> m]
       ELSE IF SourceStops(tstate)
       THEN \E m \in Msgs : \E c \in OperationStoppedOutcomes :
              wpc' = "catch" /\ wexc' = [code |-> c, msg |-> m]
       ELSE wpc' = "loopTest" /\ UNCHANGED wexc
    /\ UNCHANGED <<tstate, tHasInputs, tqueue, sig, wv, intrPending,
                   bMustReconfigure, strPropertySetName, rpc, tev, scen, wdid, tg>>

\* run: catch (PiiExecutionException&)
RunCatch ==
    /\ wpc = "catch"
    /\ wexc' = NoExc
    /\ IF ThreadPausesOn(wexc.code, tstate)
       THEN /\ tstate' = "Paused"
            /\ tg' = [ThreadedSetStateAt(tg, "run:244") EXCEPT !.last = NoDispatch]
            /\ wpc' = "pausedWait"
            /\ UNCHANGED tev
       ELSE /\ tstate' = "Stopping"
            /\ tg' = [ThreadedSetStateAt(tg, "run:272") EXCEPT !.last = NoDispatch]
            /\ wpc' = "finished"
            /\ tev' = [TEvent("worker", "stopping", "none",
                              IF EmitsError(wexc.code) THEN <<wexc.msg>> ELSE <<>>)
                       EXCEPT !.exc = wexc]
    /\ UNCHANGED <<tHasInputs, tqueue, sig, wv, intrPending, bMustReconfigure,
                   strPropertySetName, rpc, scen, wdid>>

\* Mutation: the worker goes back to Running whatever the state is.
ResumeRestoresAlways(st) == TRUE

\* run: "if (state == Paused)" after the suspension
ResumeRestores(st) == st = "Paused"

\* run: the suspension is over
RunResume ==
    /\ wpc = "resumeCheck"
    /\ wpc' = "loopTest"
    /\ IF ResumeRestores(tstate)
       THEN /\ tstate' = "Running"
            /\ tg' = ThreadedSetStateAt(tg, "run:265")
            /\ sig' = (IF tHasInputs THEN TRUE ELSE sig)
            /\ tev' = (IF tHasInputs THEN tev
                       ELSE TEvent("worker", "operationResumed", "none", <<>>))
       ELSE UNCHANGED <<tstate, sig, tev, tg>>
    /\ UNCHANGED <<tHasInputs, tqueue, wv, wexc, intrPending, bMustReconfigure,
                   strPropertySetName, rpc, scen, wdid>>

\* PiiThreadedProcessor::setStopped, called when run() has returned
SetStopped ==
    /\ wpc = "finished"
    /\ wpc' = "exiting"
    /\ tstate' = "Stopped"
    /\ tg' = ThreadedSetStateAt(tg, "setStopped:48")
    /\ UNCHANGED <<tHasInputs, tqueue, sig, wv, wexc, intrPending,
                   bMustReconfigure, strPropertySetName, rpc, tev, scen, wdid>>

\* The thread is gone: isRunning() is false, wait() returns true.
ThreadExit ==
    /\ wpc = "exiting"
    /\ wpc' = "none"
    /\ UNCHANGED <<tstate, tHasInputs, tqueue, sig, wv, wexc, intrPending,
                   bMustReconfigure, strPropertySetName, rpc, tev, scen, wdid, tg>>

WorkerStep ==
    \/ RunBegin
    \/ RunLoopTest
    \/ RunWait
    \/ RunAfterWait
    \/ PrepareAndProcess
    \/ ThreadedDispatchReturn
    \/ ThreadedDispatchThrow
    \/ RunSourceProcess
    \/ RunSourceReconfigure
    \/ RunSourceClear
    \/ RunSourceCheck
    \/ RunCatch
    \/ RunResume
    \/ SetStopped
    \/ ThreadExit

ThreadedInit ==
    /\ tstate = "Stopped"
    /\ tqueue = <<>>
    /\ sig = FALSE
    /\ wpc = "none"
    /\ wv = "none"
    /\ wexc = NoExc
    /\ intrPending = FALSE
    /\ bMustReconfigure = FALSE
    /\ strPropertySetName = ""
    /\ rpc = "idle"
    /\ tev = NoEvent
    /\ scen = "none"
    /\ wdid = FALSE
    /\ tg = NoThreadedHistory

\* ===================================================== PiiVariant: type ids
\* A type id is an unsigned 32-bit number, kept as its two 16-bit halves
\* <<high, low>>; a 64-bit number is kept as four halves, highest first.
Half == 65536
U32(hi, lo) == <<hi, lo>>
Lit(n) == <<0, n>>

RECURSIVE BitAnd(_, _, _)
BitAnd(a, b, bits) ==
    IF bits = 0 \/ a = 0 \/ b = 0 THEN 0
    ELSE (a % 2) * (b % 2) + 2 * BitAnd(a \div 2, b \div 2, bits - 1)

RECURSIVE BitOr(_, _, _)
BitOr(a, b, bits) ==
    IF bits = 0 \/ (a = 0 /\ b = 0) THEN 0
    ELSE (IF a % 2 = 1 \/ b % 2 = 1 THEN 1 ELSE 0)
         + 2 * BitOr(a \div 2, b \div 2, bits - 1)

\* x & y, x | y and ~x on numbers of equally many halves
And(x, y) == [i \in DOMAIN x |-> BitAnd(x[i], y[i], 16)]
Or(x, y) == [i \in DOMAIN x |-> BitOr(x[i], y[i], 16)]
Not(x) == [i \in DOMAIN x |-> Half - 1 - x[i]]

\* x <= y on unsigned 32-bit numbers
LessEq(x, y) == x[1] < y[1] \/ (x[1] = y[1] /\ x[2] <= y[2])

\* enum PiiVariant::PrimitiveType
CharType == Lit(0)
ShortType == Lit(1)
IntType == Lit(2)
Int64Type == Lit(3)
UnsignedCharType == Lit(8)
UnsignedShortType == Lit(9)
UnsignedIntType == Lit(10)
UnsignedInt64Type == Lit(11)
FloatType == Lit(16)
DoubleType == Lit(17)
BoolType == Lit(24)
VoidPtrType == Lit(25)
LastPrimitiveType == VoidPtrType
InvalidType == U32(65535, 65535)

\* enum PiiYdin::ControlTypeId
SynchronizationTagType == Lit(32)
StopTagType == Lit(33)
PauseTagType == Lit(34)
ResumeTagType == Lit(35)
ReconfigurationTagType == Lit(36)

\* PiiYdin::QStringType
QStringType == Lit(192)

\* PiiVariant::isPrimitive(unsigned int), and the instance form on type()
IsPrimitive(t) == LessEq(t, LastPrimitiveType)

\* PiiYdin::isControlType(int): (type & ~0x1f) == 0x20
IsControlType(t) == And(t, Not(Lit(31))) = Lit(32)

\* PiiYdin::isNonControlType(int): (type & ~0x1f) != 0x20
IsNonControlType(t) == And(t, Not(Lit(31))) # Lit(32)

\* PiiYdin::isMatrixType(int): (type & ~0x1f) == 0x40
IsMatrixType(t) == And(t, Not(Lit(31))) = Lit(64)

\* PiiVariant::isValid(unsigned int)
IsValid(t) == t # InvalidType

\* The type ids that are classified: every id up to MaxLowTag, and ids
\* around the ends of the subnets with each of the higher bits set.
TagInputs ==
    {Lit(n) : n \in 0..MaxLowTag}
    \cup {U32(hi, lo) : hi \in {1, 32768, 65535},
                        lo \in {0, 25, 26, 31, 32, 63, 64, 95, 96, 127, 128,
                                65504, 65535}}

NoTagResult ==
    [done |-> FALSE, prim |-> FALSE, ctrl |-> FALSE, nonctrl |-> FALSE, matrix |-> FALSE]

\* The category tests are called on the type id.
Classify ==
    /\ ~tres.done
    /\ tres' = [done |-> TRUE, prim |-> IsPrimitive(tag), ctrl |-> IsControlType(tag),
                nonctrl |-> IsNonControlType(tag), matrix |-> IsMatrixType(tag)]
    /\ UNCHANGED <<tag, objvars, convvars>>

\* The next type id is taken.
NextTag ==
    /\ tres.done
    /\ tres' = NoTagResult
    /\ tag' \in TagInputs
    /\ UNCHANGED <<objvars, convvars>>

TagsIdle == tag = Lit(0) /\ tres = NoTagResult

\* ===================================================== PiiVariant: storage
\* The twelve primitive types (PII_PRIMITIVE_VARIANT_DECL) and two registered
\* types: QString fits the internal buffer, PiiMatrix<int> does not.
PrimTypes == {"char", "short", "int", "qint64", "uchar", "ushort", "uint",
              "quint64", "float", "double", "bool", "void*"}
ObjTypes == {"QString", "PiiMatrix<int>"}

\* sizeof(Value): the size of the union's largest member
InternalBufferSize == 8

SizeOf(T) ==
    CASE T \in {"char", "uchar", "bool"} -> 1
      [] T \in {"short", "ushort"} -> 2
      [] T \in {"int", "uint", "float"} -> 4
      [] T \in {"qint64", "quint64", "double", "void*", "QString"} -> 8
      [] OTHER -> 16

\* PiiYdin::IntMatrixType
IntMatrixType == Lit(66)

\* Pii::typeId<T>()
TypeId(T) ==
    CASE T = "char" -> CharType     [] T = "short" -> ShortType
      [] T = "int" -> IntType       [] T = "qint64" -> Int64Type
      [] T = "uchar" -> UnsignedCharType  [] T = "ushort" -> UnsignedShortType
      [] T = "uint" -> UnsignedIntType    [] T = "quint64" -> UnsignedInt64Type
      [] T = "float" -> FloatType   [] T = "double" -> DoubleType
      [] T = "bool" -> BoolType     [] T = "void*" -> VoidPtrType
      [] T = "QString" -> QStringType
      [] OTHER -> IntMatrixType

\* A byte of the union that was never written.
Indeterminate == 256

\* The union as raw memory: InternalBufferSize bytes.
RawBuffer == [i \in 1..InternalBufferSize |-> Indeterminate]

\* "_value.xValue = val" / "*ptrAs<T>() = value": the bytes of val at offset 0
WriteBytes(buf, b) ==
    [i \in 1..InternalBufferSize |-> IF i <= Len(b) THEN b[i] ELSE buf[i]]

\* "return _value.xValue" / "*ptrAs<T>()": the first sizeof(T) bytes
ReadBytes(buf, n) == SubSeq(buf, 1, n)

\* The three shapes of the union: a primitive value, an object constructed
\* in the buffer, a pointer to a heap cell.
BytesStorage(b) == [k |-> "bytes", b |-> b, v |-> "", a |-> 0]
ObjStorage(v) == [k |-> "obj", b |-> <<>>, v |-> v, a |-> 0]
PtrStorage(a) == [k |-> "ptr", b |-> <<>>, v |-> "", a |-> a]
NoStorage == [k |-> "none", b |-> <<>>, v |-> "", a |-> 0]

\* The values a primitive type is tried with (object representations: 0, 1
\* and all bits set), and the values of the registered types.
PrimValues(T) ==
    IF T = "bool" THEN {<<0>>, <<1>>}
    ELSE {[i \in 1..SizeOf(T) |-> 0],
          [i \in 1..SizeOf(T) |-> IF i = 1 THEN 1 ELSE 0],
          [i \in 1..SizeOf(T) |-> 255]}
ObjValues(T) == IF T = "QString" THEN PropNames ELSE {"A", "B"}

Slots == {"x", "y"}
Addrs == 1..MaxHeap
Dead == [vt |-> "dead", tag |-> InvalidType, st |-> NoStorage]
NotMade == [by |-> "none", T |-> "none", pv |-> <<>>, ov |-> ""]
FreeCell == [v |-> "", live |-> FALSE]
Live(s) == vs[s].vt # "dead"


\* VTableImpl<T>: sizeof(T) <= InternalBufferSize selects SmallObjectFunctions
UsesSmall(T) == SizeOf(T) <= InternalBufferSize

\* Mutation: a caller-supplied type id selects the vtable.
PrimitiveVTableByTag(T, t) == IF IsPrimitive(t) THEN "null" ELSE T

\* The vtable the constructors of a primitive T install: _pVTable(0)
PrimitiveVTable(T, t) == "null"

\* The vtable the constructors of a registered T install: &VTableImpl<T>::instance
ObjectVTable(T) == T

\* "new ((void*)_buffer) T(value)" or "_pointer = new T(value)" into cell a
NewObject(T, v, h, a) ==
    IF UsesSmall(T)
    THEN [st |-> ObjStorage(v), heap |-> h]
    ELSE [st |-> PtrStorage(a), heap |-> [h EXCEPT ![a] = [v |-> v, live |-> TRUE]]]

\* *ptrAs<T>() of a registered type: the object in the buffer or behind _pointer
ObjectValue(T, st, h) == IF UsesSmall(T) THEN st.v ELSE h[st.a].v

\* Mutation: the copy of a large object takes over the pointer.
ConstructCopyImplShallow(T, from, h, a) ==
    IF UsesSmall(T)
    THEN [st |-> ObjStorage(from.v), heap |-> h]
    ELSE [st |-> from, heap |-> h]

\* SmallObjectFunctions / LargeObjectFunctions::constructCopyImpl
ConstructCopyImpl(T, from, h, a) == NewObject(T, ObjectValue(T, from, h), h, a)

\* SmallObjectFunctions / LargeObjectFunctions::copyImpl: *to = *from
CopyImpl(T, to, from, h) ==
    IF UsesSmall(T)
    THEN [st |-> ObjStorage(from.v), heap |-> h]
    ELSE [st |-> to, heap |-> [h EXCEPT ![to.a].v = h[from.a].v]]

\* SmallObjectFunctions / LargeObjectFunctions::destructImpl
DestructImpl(T, st, h) ==
    IF UsesSmall(T) THEN [heap |-> h, err |-> FALSE]
    ELSE [heap |-> [h EXCEPT ![st.a] = FreeCell], err |-> ~h[st.a].live]

\* type()
Type(var) == var.tag

\* Mutation: the 64-bit members are read through a 32-bit member.
ValueAsNarrow(var, T) == ReadBytes(var.st.b, IF SizeOf(T) > 4 THEN 4 ELSE SizeOf(T))

\* valueAs<T>() of a primitive type
ValueAs(var, T) == ReadBytes(var.st.b, SizeOf(T))

\* A cell "new" can return.
CanAllocate(a) == ~heap[a].live

\* PiiVariant(TYPE val) of PII_PRIMITIVE_VARIANT_DECL
Construct(s, T, v) ==
    /\ ~Live(s)
    /\ vs' = [vs EXCEPT ![s] = [vt |-> PrimitiveVTable(T, TypeId(T)), tag |-> TypeId(T),
                                st |-> BytesStorage(WriteBytes(RawBuffer, v))]]
    /\ made' = [made EXCEPT ![s] = [by |-> "PiiVariant(T)", T |-> T, pv |-> v, ov |-> ""]]
    /\ UNCHANGED <<heap, herr, tagvars, convvars>>

\* PiiVariant(T value, unsigned int typeId) for a primitive T
ConstructTaggedBy(by, s, T, v, t) ==
    /\ ~Live(s)
    /\ vs' = [vs EXCEPT ![s] = [vt |-> PrimitiveVTable(T, t), tag |-> t,
                                st |-> BytesStorage(WriteBytes(RawBuffer, v))]]
    /\ made' = [made EXCEPT ![s] = [by |-> by, T |-> T, pv |-> v, ov |-> ""]]
    /\ UNCHANGED <<heap, herr, tagvars, convvars>>

ConstructTagged(s, T, v, t) == ConstructTaggedBy("PiiVariant(T, typeId)", s, T, v, t)

\* PiiVariant(const T& value) for a registered T
ConstructObject(s, T, v) ==
    /\ ~Live(s)
    /\ \E a \in Addrs :
         /\ CanAllocate(a)
         /\ \A b \in Addrs : CanAllocate(b) => a <= b
         /\ LET n == NewObject(T, v, heap, a) IN
            /\ vs' = [vs EXCEPT ![s] = [vt |-> ObjectVTable(T), tag |-> TypeId(T),
                                        st |-> n.st]]
            /\ heap' = n.heap
    /\ made' = [made EXCEPT ![s] = [by |-> "PiiVariant(const T&)", T |-> T,
                                    pv |-> <<>>, ov |-> v]]
    /\ UNCHANGED <<herr, tagvars, convvars>>

\* PiiVariant(T value, unsigned int typeId) for a registered T
ConstructObjectTaggedBy(by, s, T, v, t) ==
    /\ ~Live(s)
    /\ \E a \in Addrs :
         /\ CanAllocate(a)
         /\ \A b \in Addrs : CanAllocate(b) => a <= b
         /\ LET n == NewObject(T, v, heap, a) IN
            /\ vs' = [vs EXCEPT ![s] = [vt |-> ObjectVTable(T), tag |-> t, st |-> n.st]]
            /\ heap' = n.heap
    /\ made' = [made EXCEPT ![s] = [by |-> by, T |-> T, pv |-> <<>>, ov |-> v]]
    /\ UNCHANGED <<herr, tagvars, convvars>>

ConstructObjectTagged(s, T, v, t) ==
    ConstructObjectTaggedBy("PiiVariant(T, typeId)", s, T, v, t)

\* int 1, -1 and 0 as object representations
IntOne == <<1, 0, 0, 0>>
IntMinusOne == <<255, 255, 255, 255>>
IntZero == <<0, 0, 0, 0>>

\* PiiYdin::createStartTag, createEndTag, createStopTag, createPauseTag
CreateTag(s, kind) ==
    CASE kind = "createStartTag" ->
           ConstructTaggedBy(kind, s, "int", IntOne, SynchronizationTagType)
      [] kind = "createEndTag" ->
           ConstructTaggedBy(kind, s, "int", IntMinusOne, SynchronizationTagType)
      [] kind = "createStopTag" ->
           ConstructTaggedBy(kind, s, "int", IntZero, StopTagType)
      [] kind = "createPauseTag" ->
           ConstructTaggedBy(kind, s, "int", IntZero, PauseTagType)
TagFactories == {"createStartTag", "createEndTag", "createStopTag", "createPauseTag"}

\* PiiYdin::createReconfigurationTag(name)
CreateReconfigurationTag(s, name) ==
    ConstructObjectTaggedBy("createReconfigurationTag", s, "QString", name,
                            ReconfigurationTagType)

\* PiiVariant(): the invalid variant
ConstructInvalid(s) ==
    /\ ~Live(s)
    /\ vs' = [vs EXCEPT ![s] = [vt |-> "null", tag |-> InvalidType,
                                st |-> BytesStorage(RawBuffer)]]
    /\ made' = [made EXCEPT ![s] = [NotMade EXCEPT !.by = "PiiVariant()"]]
    /\ UNCHANGED <<heap, herr, tagvars, convvars>>

\* PiiVariant(const PiiVariant& other): through the vtable, or the union as
\* it is for a null vtable
CopyConstruct(dst, src) ==
    /\ ~Live(dst) /\ Live(src)
    /\ IF vs[src].vt = "null"
       THEN /\ vs' = [vs EXCEPT ![dst] = vs[src]]
            /\ UNCHANGED heap
       ELSE \E a \in Addrs :
              /\ CanAllocate(a)
              /\ \A b \in Addrs : CanAllocate(b) => a <= b
              /\ LET n == ConstructCopyImpl(vs[src].vt, vs[src].st, heap, a) IN
                 /\ vs' = [vs EXCEPT ![dst] = [vs[src] EXCEPT !.st = n.st]]
                 /\ heap' = n.heap
    /\ made' = [made EXCEPT ![dst] = made[src]]
    /\ UNCHANGED <<herr, tagvars, convvars>>

\* operator=(const PiiVariant& other): the vtable's copy for two values of
\* one type, else the old value is destructed and the new one copy-constructed
Assign(dst, src) ==
    /\ dst # src /\ Live(dst) /\ Live(src)
    /\ IF vs[dst].vt # "null" /\ vs[dst].vt = vs[src].vt
       THEN LET n == CopyImpl(vs[src].vt, vs[dst].st, vs[src].st, heap) IN
            /\ vs' = [vs EXCEPT ![dst] = [vs[src] EXCEPT !.st = n.st]]
            /\ heap' = n.heap
            /\ UNCHANGED herr
       ELSE LET d == IF vs[dst].vt = "null" THEN [heap |-> heap, err |-> FALSE]
                     ELSE DestructImpl(vs[dst].vt, vs[dst].st, heap)
            IN
            /\ herr' = (herr \/ d.err)
            /\ IF vs[src].vt = "null"
               THEN /\ vs' = [vs EXCEPT ![dst] = vs[src]]
                    /\ heap' = d.heap
               ELSE \E a \in Addrs :
                      /\ ~d.heap[a].live
                      /\ \A b \in Addrs : ~d.heap[b].live => a <= b
                      /\ LET n == ConstructCopyImpl(vs[src].vt, vs[src].st, d.heap, a) IN
                         /\ vs' = [vs EXCEPT ![dst] = [vs[src] EXCEPT !.st = n.st]]
                         /\ heap' = n.heap
    /\ made' = [made EXCEPT ![dst] = made[src]]
    /\ UNCHANGED <<tagvars, convvars>>

\* ~PiiVariant(): destruct through the vtable, if there is one
Destroy(s) ==
    /\ Live(s)
    /\ LET d == IF vs[s].vt = "null" THEN [heap |-> heap, err |-> FALSE]
                ELSE DestructImpl(vs[s].vt, vs[s].st, heap)
       IN /\ heap' = d.heap
          /\ herr' = (herr \/ d.err)
    /\ vs' = [vs EXCEPT ![s] = Dead]
    /\ made' = [made EXCEPT ![s] = NotMade]
    /\ UNCHANGED <<tagvars, convvars>>

\* Type ids a caller supplies: the id of another primitive type and the
\* custom id 0x55378008 of the documentation.
CustomTags == {IntType, U32(21815, 32776)}
CustomObjectTags == {U32(21815, 32776)}

ObjectsIdle ==
    /\ vs = [s \in Slots |-> Dead]
    /\ made = [s \in Slots |-> NotMade]
    /\ heap = [a \in Addrs |-> FreeCell]
    /\ herr = FALSE

\* ============================================ PiiVariant: converter registry
\* A 64-bit number from an unsigned int, and x << 32 on 64-bit numbers.
U64(t) == <<0, 0, t[1], t[2]>>
ShiftLeft32(x) == <<x[3], x[4], 0, 0>>
ShiftLeft16(x) == <<x[2], x[3], x[4], 0>>

\* Mutation: the target type is shifted by 16 bits only.
ToKeyShift16(fromType, toType) == Or(U64(fromType), ShiftLeft16(U64(toType)))

\* PiiVariant::toKey: fromType | (toType << 32)
ToKey(fromType, toType) == Or(U64(fromType), ShiftLeft32(U64(toType)))

\* Converter functions: none, defaultConverter<From, To>, and two functions
\* registered by a user that report failure, one of them after it has
\* written to the result.
NullFunction == [name |-> "null", from |-> "", to |-> ""]
DefaultConverter(From, To) == [name |-> "defaultConverter", from |-> From, to |-> To]
UserFunctions ==
    {[name |-> "userConverterFails", from |-> "", to |-> ""],
     [name |-> "userConverterWritesAndFails", from |-> "", to |-> ""]}

\* QMap::insert / QMap::remove / QMap::value on the converter map
MapInsert(r, k, f) == {e \in r : e[1] # k} \cup {<<k, f>>}
MapRemove(r, k) == {e \in r : e[1] # k}
MapValue(r, k) ==
    IF \E e \in r : e[1] = k THEN (CHOOSE e \in r : e[1] = k)[2] ELSE NullFunction

\* PiiVariant::converter(fromType, toType)
Converter(r, fromType, toType) == MapValue(r, ToKey(fromType, toType))

\* PiiVariant::canConvert(fromType, toType)
CanConvert(r, fromType, toType) == Converter(r, fromType, toType) # NullFunction

\* Types between which the model converts, and the built-in conversions
\* among them (ConvertInit): the numeric types and bool convert to each
\* other, a character type converts to and from the numeric types only.
ConvTypes == {"uchar", "int", "bool", "QString"}
BuiltIn ==
    {<<"uchar", "int">>, <<"int", "uchar">>, <<"int", "bool">>, <<"bool", "int">>}
DefaultRegistry ==
    {<<ToKey(TypeId(p[1]), TypeId(p[2])), DefaultConverter(p[1], p[2])>> : p \in BuiltIn}

\* The pairs of type ids setConverter is called with: a pair with a built-in
\* converter, a pair of equal ids, and a pair of an id above 16 bits and 0.
SetPairs ==
    {<<UnsignedCharType, IntType>>, <<IntType, IntType>>, <<U32(2, 2), CharType>>}
PairTags == {UnsignedCharType, IntType, BoolType, QStringType, CharType, U32(2, 2)}

\* The function of the last setConverter call for each pair, at start-up.
DefaultLastSet ==
    [p \in PairTags \X PairTags |->
        IF \E q \in BuiltIn : p = <<TypeId(q[1]), TypeId(q[2])>>
        THEN LET q == CHOOSE q \in BuiltIn : p = <<TypeId(q[1]), TypeId(q[2])>>
             IN DefaultConverter(q[1], q[2])
        ELSE NullFunction]

\* T(): the value-initialised result
DefaultValue(T) ==
    IF T \in PrimTypes THEN [pv |-> [i \in 1..SizeOf(T) |-> 0], ov |-> ""]
    ELSE [pv |-> <<>>, ov |-> ""]

\* The value something else has written.
OtherValue(T) ==
    IF T \in PrimTypes THEN [pv |-> [i \in 1..SizeOf(T) |-> 255], ov |-> ""]
    ELSE [pv |-> <<>>, ov |-> "p2"]

\* *ptrAs<T>() as a result value
StoredAs(var, T) ==
    IF T \in PrimTypes THEN [pv |-> ReadBytes(var.st.b, SizeOf(T)), ov |-> ""]
    ELSE [pv |-> <<>>, ov |-> var.st.v]

\* The C++ conversion From -> To on object representations (least
\* significant byte first); a value with an unwritten byte converts to an
\* unspecified value.
NumericConversion(To, b) ==
    IF \E i \in DOMAIN b : b[i] = Indeterminate
    THEN [i \in 1..SizeOf(To) |-> Indeterminate]
    ELSE IF To = "bool" THEN <<IF \E i \in DOMAIN b : b[i] # 0 THEN 1 ELSE 0>>
    ELSE [i \in 1..SizeOf(To) |-> IF i <= Len(b) THEN b[i] ELSE 0]

\* The call of a converter function f(this, &value): what it returns and
\* what it leaves in value.
CallConverter(f, var, T, out) ==
    CASE f.name = "defaultConverter" ->
           [ret |-> TRUE,
            value |-> [pv |-> NumericConversion(f.to, ReadBytes(var.st.b, SizeOf(f.from))),
                       ov |-> ""]]
      [] f.name = "userConverterWritesAndFails" ->
           [ret |-> FALSE, value |-> OtherValue(T)]
      [] OTHER -> [ret |-> FALSE, value |-> out]

\* Mutation: the test for the same type is skipped.
SameTypeNever(var, T) == FALSE

\* convertTo: "_uiType == Pii::typeId<T>()"
SameType(var, T) == var.tag = TypeId(T)

\* Mutation: a missing converter is a success.
NoConverterReturnsTrue(T) == TRUE

\* convertTo: "return false" when no converter is registered
NoConverterReturns(T) == FALSE

\* convertTo<T>(T& value): the result, the value left in value, whether the
\* registry was consulted and the function that was called
ConvertToOut(var, T, out, r) ==
    IF SameType(var, T)
    THEN [ret |-> TRUE, value |-> StoredAs(var, T), consulted |-> FALSE,
          called |-> NullFunction]
    ELSE LET convert == Converter(r, var.tag, TypeId(T)) IN
         IF convert # NullFunction
         THEN LET c == CallConverter(convert, var, T, out) IN
              [ret |-> c.ret, value |-> c.value, consulted |-> TRUE, called |-> convert]
         ELSE [ret |-> NoConverterReturns(T), value |-> out, consulted |-> TRUE,
               called |-> NullFunction]

\* convertTo<T>(bool* ok): "T value = T(); bool bOk = convertTo(value);"
ConvertToOk(var, T, r) == ConvertToOut(var, T, DefaultValue(T), r)

NoCall ==
    [op |-> "none", T |-> "", from |-> Lit(0), to |-> Lit(0), ret |-> FALSE,
     value |-> DefaultValue("QString"), out |-> DefaultValue("QString"),
     consulted |-> FALSE, called |-> NullFunction, before |-> Dead]

\* The Variant that is converted lives in slot x.
Subject == vs["x"]

\* v.convertTo<T>(&ok)
CallConvertToOk(T) ==
    /\ Live("x")
    /\ LET c == ConvertToOk(Subject, T, reg) IN
       cres' = [NoCall EXCEPT !.op = "convertTo(ok)", !.T = T, !.ret = c.ret,
                              !.value = c.value, !.out = DefaultValue(T),
                              !.consulted = c.consulted, !.called = c.called,
                              !.before = Subject]
    /\ UNCHANGED <<reg, lastSet, nset, objvars, tagvars>>

\* v.convertTo<T>(value)
CallConvertToOut(T) ==
    /\ Live("x")
    /\ LET c == ConvertToOut(Subject, T, OtherValue(T), reg) IN
       cres' = [NoCall EXCEPT !.op = "convertTo(value)", !.T = T, !.ret = c.ret,
                              !.value = c.value, !.out = OtherValue(T),
                              !.consulted = c.consulted, !.called = c.called,
                              !.before = Subject]
    /\ UNCHANGED <<reg, lastSet, nset, objvars, tagvars>>

\* PiiVariant::setConverter(fromType, toType, function): a null function
\* removes the converter of the pair
SetConverter(fromType, toType, f) ==
    /\ nset < MaxSets
    /\ nset' = nset + 1
    /\ reg' = IF f = NullFunction THEN MapRemove(reg, ToKey(fromType, toType))
              ELSE MapInsert(reg, ToKey(fromType, toType), f)
    /\ lastSet' = [lastSet EXCEPT ![<<fromType, toType>>] = f]
    /\ cres' = [NoCall EXCEPT !.op = "setConverter", !.from = fromType, !.to = toType,
                              !.called = f]
    /\ UNCHANGED <<objvars, tagvars>>

\* PiiVariant::converter(fromType, toType) and canConvert(fromType, toType)
CallConverterLookup(fromType, toType) ==
    /\ cres' = [NoCall EXCEPT !.op = "converter", !.from = fromType, !.to = toType,
                              !.called = Converter(reg, fromType, toType),
                              !.ret = CanConvert(reg, fromType, toType)]
    /\ UNCHANGED <<reg, lastSet, nset, objvars, tagvars>>

RegistryIdle ==
    /\ reg = DefaultRegistry
    /\ lastSet = DefaultLastSet
    /\ nset = 0
    /\ cres = NoCall

\* No Variant is in use.
VariantIdle == TagsIdle /\ ObjectsIdle /\ RegistryIdle

\* ------------------------------------------------------- specifications
\* The category tests of the type ids.
InitTags ==
    /\ SimpleInit /\ hasInputs = FALSE /\ ThreadedInit /\ tHasInputs = FALSE
    /\ tag \in TagInputs /\ tres = NoTagResult /\ ObjectsIdle /\ RegistryIdle
NextTags ==
    \/ Classify /\ UNCHANGED <<svars, tvars>>
    \/ NextTag /\ UNCHANGED <<svars, tvars>>
SpecTags == InitTags /\ [][NextTags]_vars

\* Variants are constructed, copied, assigned and destroyed.
InitVariant ==
    /\ SimpleInit /\ hasInputs = FALSE /\ ThreadedInit /\ tHasInputs = FALSE
    /\ VariantIdle
NextVariant ==
    \/ (\E s \in Slots : \E T \in PrimTypes : \E v \in PrimValues(T) : Construct(s, T, v))
         /\ UNCHANGED <<svars, tvars>>
    \/ (\E s \in Slots : \E T \in PrimTypes : \E v \in PrimValues(T) :
          \E t \in CustomTags : ConstructTagged(s, T, v, t))
         /\ UNCHANGED <<svars, tvars>>
    \/ (\E s \in Slots : \E T \in ObjTypes : \E v \in ObjValues(T) : ConstructObject(s, T, v))
         /\ UNCHANGED <<svars, tvars>>
    \/ (\E s \in Slots : \E T \in ObjTypes : \E v \in ObjValues(T) :
          \E t \in CustomObjectTags : ConstructObjectTagged(s, T, v, t))
         /\ UNCHANGED <<svars, tvars>>
    \/ (\E s \in Slots : \E k \in TagFactories : CreateTag(s, k))
         /\ UNCHANGED <<svars, tvars>>
    \/ (\E s \in Slots : \E n \in PropNames : CreateReconfigurationTag(s, n))
         /\ UNCHANGED <<svars, tvars>>
    \/ (\E s \in Slots : ConstructInvalid(s)) /\ UNCHANGED <<svars, tvars>>
    \/ (\E d \in Slots : \E s \in Slots : CopyConstruct(d, s)) /\ UNCHANGED <<svars, tvars>>
    \/ (\E d \in Slots : \E s \in Slots : Assign(d, s)) /\ UNCHANGED <<svars, tvars>>
    \/ (\E s \in Slots : Destroy(s)) /\ UNCHANGED <<svars, tvars>>
SpecVariant == InitVariant /\ [][NextVariant]_vars

\* One Variant is constructed in slot x and converted while converters are
\* registered and removed.
ConvPrimTypes == {"uchar", "int", "bool"}
InitConvert == InitVariant
NextConvert ==
    \/ (\E T \in ConvPrimTypes : \E v \in PrimValues(T) : Construct("x", T, v))
         /\ UNCHANGED <<svars, tvars>>
    \/ (\E v \in PrimValues("uchar") : \E t \in CustomTags : ConstructTagged("x", "uchar", v, t))
         /\ UNCHANGED <<svars, tvars>>
    \/ (\E v \in ObjValues("QString") : ConstructObject("x", "QString", v))
         /\ UNCHANGED <<svars, tvars>>
    \/ ConstructInvalid("x") /\ UNCHANGED <<svars, tvars>>
    \/ (\E T \in ConvTypes : CallConvertToOk(T)) /\ UNCHANGED <<svars, tvars>>
    \/ (\E T \in ConvTypes : CallConvertToOut(T)) /\ UNCHANGED <<svars, tvars>>
    \/ (\E p \in SetPairs : \E fn \in UserFunctions \cup {NullFunction} :
          SetConverter(p[1], p[2], fn))
         /\ UNCHANGED <<svars, tvars>>
    \/ (\E p \in SetPairs : CallConverterLookup(p[1], p[2])) /\ UNCHANGED <<svars, tvars>>
SpecConvert == InitConvert /\ [][NextConvert]_vars

\* The synchronous processor alone.
InitSimple == SimpleInit /\ ThreadedInit /\ tHasInputs = FALSE /\ VariantIdle
NextSimple ==
    \/ (\E t \in Senders : \E o \in NewObjects : TryToReceive(t, o)) /\ UNCHANGED <<tvars, pvars>>
    \/ (\E t \in Senders : DispatchReturn(t)) /\ UNCHANGED <<tvars, pvars>>
    \/ (\E t \in Senders : DispatchThrow(t)) /\ UNCHANGED <<tvars, pvars>>
    \/ (\E t \in Senders : FlowRethrow(t)) /\ UNCHANGED <<tvars, pvars>>
    \/ (\E r \in BOOLEAN : Check(r)) /\ UNCHANGED <<tvars, pvars>>
    \/ Start /\ UNCHANGED <<tvars, pvars>>
    \/ Interrupt /\ UNCHANGED <<tvars, pvars>>
    \/ StopTo("Stopped") /\ UNCHANGED <<tvars, pvars>>
    \/ StopTo("Paused") /\ UNCHANGED <<tvars, pvars>>
    \/ StopHook /\ UNCHANGED <<tvars, pvars>>
    \/ Reconfigure /\ UNCHANGED <<tvars, pvars>>
SpecSimple == InitSimple /\ [][NextSimple]_vars

\* The synchronous processor with check(false) also called while a process()
\* call is in progress.
NextSimpleAnyCheck ==
    \/ (\E t \in Senders : \E o \in NewObjects : TryToReceive(t, o)) /\ UNCHANGED <<tvars, pvars>>
    \/ (\E t \in Senders : DispatchReturn(t)) /\ UNCHANGED <<tvars, pvars>>
    \/ (\E t \in Senders : DispatchThrow(t)) /\ UNCHANGED <<tvars, pvars>>
    \/ (\E t \in Senders : FlowRethrow(t)) /\ UNCHANGED <<tvars, pvars>>
    \/ (\E r \in BOOLEAN : Check(r)) /\ UNCHANGED <<tvars, pvars>>
    \/ CheckDuring(FALSE) /\ UNCHANGED <<tvars, pvars>>
    \/ Start /\ UNCHANGED <<tvars, pvars>>
    \/ Interrupt /\ UNCHANGED <<tvars, pvars>>
    \/ StopTo("Stopped") /\ UNCHANGED <<tvars, pvars>>
    \/ StopTo("Paused") /\ UNCHANGED <<tvars, pvars>>
    \/ StopHook /\ UNCHANGED <<tvars, pvars>>
    \/ Reconfigure /\ UNCHANGED <<tvars, pvars>>
SpecSimpleAnyCheck == InitSimple /\ [][NextSimpleAnyCheck]_vars

\* The threaded processor alone.
InitThreaded ==
    ThreadedInit /\ tHasInputs \in BOOLEAN /\ SimpleInit /\ hasInputs = FALSE /\ VariantIdle
NextThreaded ==
    \/ (\E o \in NewThreadedObjects : ThreadedTryToReceive(o)) /\ UNCHANGED <<svars, pvars>>
    \/ (\E r \in BOOLEAN : ThreadedCheck(r)) /\ UNCHANGED <<svars, pvars>>
    \/ ThreadedStart /\ UNCHANGED <<svars, pvars>>
    \/ ThreadedInterrupt /\ UNCHANGED <<svars, pvars>>
    \/ ThreadedInterruptWake /\ UNCHANGED <<svars, pvars>>
    \/ ThreadedStopTo("Stopping") /\ UNCHANGED <<svars, pvars>>
    \/ ThreadedStopTo("Pausing") /\ UNCHANGED <<svars, pvars>>
    \/ (\E n \in PropNames : ThreadedReconfigure(n)) /\ UNCHANGED <<svars, pvars>>
    \/ ThreadedReconfigureFlag /\ UNCHANGED <<svars, pvars>>
    \/ ThreadedWait /\ UNCHANGED <<svars, pvars>>
    \/ RunBegin /\ UNCHANGED <<svars, pvars>>
    \/ RunLoopTest /\ UNCHANGED <<svars, pvars>>
    \/ RunWait /\ UNCHANGED <<svars, pvars>>
    \/ RunAfterWait /\ UNCHANGED <<svars, pvars>>
    \/ PrepareAndProcess /\ UNCHANGED <<svars, pvars>>
    \/ ThreadedDispatchReturn /\ UNCHANGED <<svars, pvars>>
    \/ ThreadedDispatchThrow /\ UNCHANGED <<svars, pvars>>
    \/ RunSourceProcess /\ UNCHANGED <<svars, pvars>>
    \/ RunSourceReconfigure /\ UNCHANGED <<svars, pvars>>
    \/ RunSourceClear /\ UNCHANGED <<svars, pvars>>
    \/ RunSourceCheck /\ UNCHANGED <<svars, pvars>>
    \/ RunCatch /\ UNCHANGED <<svars, pvars>>
    \/ RunResume /\ UNCHANGED <<svars, pvars>>
    \/ SetStopped /\ UNCHANGED <<svars, pvars>>
    \/ ThreadExit /\ UNCHANGED <<svars, pvars>>
SpecThreaded == InitThreaded /\ [][NextThreaded]_vars

\* The worker thread is scheduled, its callbacks return, and a caller of
\* interrupt() gets to its wakeOne().
FairThreaded ==
    /\ WF_vars(WorkerStep /\ UNCHANGED <<svars, pvars>>)
    /\ WF_vars(ThreadedInterruptWake /\ UNCHANGED <<svars, pvars>>)
FairSpecThreaded == SpecThreaded /\ FairThreaded

\* The threaded processor while nobody resumes or interrupts it: start() is
\* called in every state but Paused, interrupt() is not called at all.
NextNoResume ==
    \/ (\E o \in NewThreadedObjects : ThreadedTryToReceive(o)) /\ UNCHANGED <<svars, pvars>>
    \/ (\E r \in BOOLEAN : ThreadedCheck(r)) /\ UNCHANGED <<svars, pvars>>
    \/ (tstate # "Paused" /\ ThreadedStart) /\ UNCHANGED <<svars, pvars>>
    \/ ThreadedStopTo("Stopping") /\ UNCHANGED <<svars, pvars>>
    \/ ThreadedStopTo("Pausing") /\ UNCHANGED <<svars, pvars>>
    \/ (\E n \in PropNames : ThreadedReconfigure(n)) /\ UNCHANGED <<svars, pvars>>
    \/ ThreadedReconfigureFlag /\ UNCHANGED <<svars, pvars>>
    \/ ThreadedWait /\ UNCHANGED <<svars, pvars>>
    \/ RunBegin /\ UNCHANGED <<svars, pvars>>
    \/ RunLoopTest /\ UNCHANGED <<svars, pvars>>
    \/ RunWait /\ UNCHANGED <<svars, pvars>>
    \/ RunAfterWait /\ UNCHANGED <<svars, pvars>>
    \/ PrepareAndProcess /\ UNCHANGED <<svars, pvars>>
    \/ ThreadedDispatchReturn /\ UNCHANGED <<svars, pvars>>
    \/ ThreadedDispatchThrow /\ UNCHANGED <<svars, pvars>>
    \/ RunSourceProcess /\ UNCHANGED <<svars, pvars>>
    \/ RunSourceReconfigure /\ UNCHANGED <<svars, pvars>>
    \/ RunSourceClear /\ UNCHANGED <<svars, pvars>>
    \/ RunSourceCheck /\ UNCHANGED <<svars, pvars>>
    \/ RunCatch /\ UNCHANGED <<svars, pvars>>
    \/ RunResume /\ UNCHANGED <<svars, pvars>>
    \/ SetStopped /\ UNCHANGED <<svars, pvars>>
    \/ ThreadExit /\ UNCHANGED <<svars, pvars>>
SpecNoResume == InitThreaded /\ [][NextNoResume]_vars

\* The threaded processor of a source operation (no connected input): the
\* steps that need a flow controller are never enabled and are left out.
InitSource == InitThreaded /\ ~tHasInputs
NextSource ==
    \/ (\E r \in BOOLEAN : ThreadedCheck(r)) /\ UNCHANGED <<svars, pvars>>
    \/ ThreadedStart /\ UNCHANGED <<svars, pvars>>
    \/ ThreadedInterrupt /\ UNCHANGED <<svars, pvars>>
    \/ ThreadedInterruptWake /\ UNCHANGED <<svars, pvars>>
    \/ ThreadedStopTo("Stopping") /\ UNCHANGED <<svars, pvars>>
    \/ ThreadedStopTo("Pausing") /\ UNCHANGED <<svars, pvars>>
    \/ (\E n \in PropNames : ThreadedReconfigure(n)) /\ UNCHANGED <<svars, pvars>>
    \/ ThreadedReconfigureFlag /\ UNCHANGED <<svars, pvars>>
    \/ ThreadedWait /\ UNCHANGED <<svars, pvars>>
    \/ RunBegin /\ UNCHANGED <<svars, pvars>>
    \/ RunLoopTest /\ UNCHANGED <<svars, pvars>>
    \/ RunWait /\ UNCHANGED <<svars, pvars>>
    \/ RunSourceProcess /\ UNCHANGED <<svars, pvars>>
    \/ RunSourceReconfigure /\ UNCHANGED <<svars, pvars>>
    \/ RunSourceClear /\ UNCHANGED <<svars, pvars>>
    \/ RunSourceCheck /\ UNCHANGED <<svars, pvars>>
    \/ RunCatch /\ UNCHANGED <<svars, pvars>>
    \/ RunResume /\ UNCHANGED <<svars, pvars>>
    \/ SetStopped /\ UNCHANGED <<svars, pvars>>
    \/ ThreadExit /\ UNCHANGED <<svars, pvars>>
SpecSource == InitSource /\ [][NextSource]_vars
FairSpecSource == SpecSource /\ FairThreaded

\* One operation, driven by either processor: the processor that makes the
\* first step is the one in use.
InitEither == InitSimple \/ InitThreaded
NextEither ==
    \/ ThreadedInit /\ NextSimple
    \/ SimpleInit /\ NextThreaded
SpecEither == InitEither /\ [][NextEither]_vars

\* ------------------------------------------------------------------ claims
IsPrefix(a, b) == Len(a) <= Len(b) /\ SubSeq(b, 1, Len(a)) = a

\* Frames of all senders that are inside the dispatch section.
DispatchFrames ==
    {<<t, i>> \in Senders \X (1..MaxDepth) :
        i <= Len(stack[t]) /\ stack[t][i].pc = "dispatch"}

\* C1: at most one thread is inside the dispatch section of the operation,
\* and an admission made while a dispatch is in progress queries no flow
\* controller and starts no dispatch: it returns at the discard, at the
\* rejection or at the recursion guard, and on an armed operation whose
\* socket can receive it stores exactly its object and returns true.
C1_StepOk ==
    /\ Cardinality(DispatchFrames') <= 1
    /\ (DispatchFrames # {} /\ ev'.op = "tryToReceive") =>
         /\ ev'.path \in {"discard", "reject", "guard"}
         /\ UNCHANGED <<stack, handed, state, bProcessing>>
         /\ (bReset /\ CanReceive(queue)) =>
              /\ ev'.path = "guard"
              /\ ev'.ret = "true"
              /\ Len(queue') = Len(queue) + 1
              /\ SubSeq(queue', 1, Len(queue)) = queue

C1_RecursionGuard == [][C1_StepOk]_vars

\* C1 witness: a dispatch is in progress and another admission has just
\* returned at the recursion guard, leaving its object in the socket.
C1_Witness ==
    /\ DispatchFrames # {}
    /\ ev.op = "tryToReceive" /\ ev.path = "guard"
    /\ queue # <<>> /\ queue[Len(queue)].g

C3_StepOk ==
    (ev'.op = "tryToReceive" /\ ~bReset) =>
        /\ ev'.path = "discard"
        /\ ev'.ret = "true"
        /\ UNCHANGED <<state, bReset, bProcessing, queue, stack, handed, dataIds>>

C3_DiscardWhenNotArmed == [][C3_StepOk]_vars

\* C3 witness: an object was discarded by a processor disarmed by an exception.
C3_Witness ==
    /\ ev.op = "tryToReceive" /\ ev.path = "discard"
    /\ ~bReset /\ excSeen /\ state = "Stopped"

\* C4: an admission to an armed processor whose socket cannot receive returns
\* false, stores nothing, queries no flow controller and invokes no process();
\* every other return of tryToReceive is true.
C4_StepOk ==
    /\ (ev'.op = "tryToReceive" /\ bReset /\ ~CanReceive(queue)) =>
         /\ ev'.path = "reject"
         /\ ev'.ret = "false"
         /\ UNCHANGED <<queue, stack, handed, dataIds, bProcessing>>
    /\ (ev'.op \in {"tryToReceive", "loop", "handler"}
        /\ ~(ev'.op = "tryToReceive" /\ bReset /\ ~CanReceive(queue))) =>
         ev'.ret \in {"true", "none"}
    /\ (ev'.op \in {"tryToReceive", "loop", "handler"} /\ ev'.ret = "none") =>
         \E t \in Senders : Len(stack'[t]) >= Len(stack[t]) /\ stack'[t] # <<>>

C4_RejectWhenFull == [][C4_StepOk]_vars

\* C4 witness: an admission was rejected with false.
C4_Witness == ev.op = "tryToReceive" /\ ev.path = "reject" /\ ev.ret = "false"

\* C5: a Paused exception from the dispatch moves the operation to Paused and
\* leaves the arming alone, unless the operation is Stopped when the handler
\* runs, in which case it does not become Paused; in both cases the recursion
\* guard flag is cleared and tryToReceive returns true.
C5_StepOk ==
    (ev'.op = "handler" /\ ev'.exc.code = "Paused") =>
        /\ IF state # "Stopped"
           THEN state' = "Paused" /\ bReset' = bReset
           ELSE state' # "Paused"
        /\ ~bProcessing'
        /\ ev'.ret = "true"

C5_PausedException == [][C5_StepOk]_vars

\* C5 witness: a Paused exception was handled after the operation had been
\* stopped concurrently.
C5_Witness ==
    ev.op = "handler" /\ ev.exc.code = "Paused" /\ ev.path = "stopped"

\* C6: an Error exception (from the dispatch or the flow controller) is
\* handled inside tryToReceive: errorOccured is emitted once with the
\* exception's message, the processor is disarmed and the state is Stopped;
\* a Finished exception does the same without emitting; a disarmed processor
\* is armed again only by check(true).
C6_StepOk ==
    /\ (ev'.op = "handler" /\ ev'.exc.code = "Error") =>
         /\ ev'.err = <<ev'.exc.msg>>
         /\ ~bReset' /\ state' = "Stopped" /\ ev'.ret = "true"
    /\ (ev'.op = "handler" /\ ev'.exc.code = "Finished") =>
         /\ ev'.err = <<>>
         /\ ~bReset' /\ state' = "Stopped" /\ ev'.ret = "true"
    /\ (~bReset /\ bReset') => Check(TRUE)
    /\ ev'.op # "handler" => ev'.err = <<>> \/ ev'.path = "applyPropertySet"

C6_ErrorException == [][C6_StepOk]_vars

\* C6 witness: an Error raised by the flow controller was handled and reported.
C6_Witness ==
    /\ ev.op = "handler" /\ ev.exc.code = "Error" /\ ev.err # <<>>
    /\ ~bReset /\ state = "Stopped" /\ queue # <<>> /\ Head(queue).k = "bad"

\* C7 (as amended): stop() on a Running operation with connected inputs whose
\* worker is blocked on the wait condition only sets Stopping and sends no
\* signal: as long as no admission and no interrupt() follows, the state stays
\* Stopping, the worker stays alive and wait() returns false.
C7_StopStaysStopping ==
    scen = "stopIdle" =>
        /\ tstate = "Stopping"
        /\ wpc \notin {"none", "finished", "exiting", "dispatch", "catch"}
        /\ tev.op = "wait" => tev.ret = "false"

\* C7 witness: after stop() on the idle operation, wait() has returned false
\* with the worker still blocked on the condition.
C7_Witness ==
    /\ scen = "stopIdle" /\ Blocked(wpc) /\ ~sig
    /\ tev.op = "wait" /\ tev.ret = "false"

\* C7 as stated: after stop() on the idle Running operation the state becomes
\* Stopped without a further admission or interrupt().
C7_Original ==
    [](scen = "stopIdle" => <>(tstate = "Stopped" \/ scen # "stopIdle"))

\* C8 (as amended): after interrupt() on an operation whose worker is blocked
\* on the wait condition with no pending input, the worker leaves its loop
\* without a flow controller query and without process(); the state is
\* Interrupted until the worker has returned and Stopped once the completion
\* callback has run.
C8_InterruptedIdleExit ==
    scen = "intrIdle" =>
        /\ ~wdid
        /\ wpc \notin {"prepare", "dispatch", "catch", "srcProcess"}
        /\ wpc \in {"exiting", "none"} => tstate = "Stopped"
        /\ wpc \notin {"exiting", "none"} => tstate = "Interrupted"

\* C8 witness: the interrupted idle worker has terminated.
C8_Witness == scen = "intrIdle" /\ wpc = "none" /\ tstate = "Stopped" /\ ~wdid

\* C8 as stated: once the worker has terminated the state is Interrupted.
C8_Original == (scen = "intrIdle" /\ wpc = "none") => tstate = "Interrupted"

\* C9 (as amended): interrupt() sets Interrupted in every state except
\* Stopped, which it leaves alone, and in every state signals the wait
\* condition once, after releasing the lock.
C9_StepOk ==
    /\ (~intrPending /\ intrPending') =>
         /\ tstate' = (IF tstate = "Stopped" THEN "Stopped" ELSE "Interrupted")
         /\ UNCHANGED <<sig, wpc>>
    /\ (intrPending /\ ~intrPending') =>
         /\ UNCHANGED tstate
         /\ IF Blocked(wpc)
            THEN wpc' = Woken(wpc) /\ sig' = sig
            ELSE wpc' = wpc /\ sig'

C9_InterruptEffect == [][C9_StepOk]_vars

\* C9 witness: interrupt() was called on a Stopped operation.
C9_Witness ==
    /\ tev.op = "interrupt" /\ tev.path = "Stopped"
    /\ tstate = "Stopped" /\ intrPending

\* C9 as stated: interrupt() sets Interrupted whatever the state.
C9_Original == [][(~intrPending /\ intrPending') => tstate' = "Interrupted"]_vars

\* C10: once the state is Interrupted, a worker that takes the state lock
\* starts no further process() call.
C10_Original ==
    [][~(/\ tstate = "Interrupted"
         /\ wpc = "prepare"
         /\ wpc' = "dispatch"
         /\ wv' = "ProcessableState")]_vars

\* C11: once the state is Interrupted, no call and no worker step changes it
\* to anything but Stopped.
C11_Original ==
    [][tstate = "Interrupted" => tstate' \in {"Interrupted", "Stopped"}]_vars

WrittenAt(site) ==
    CASE site = "tryToReceive:38"  -> {"Running"}
      [] site = "tryToReceive:123" -> {"Paused"}
      [] site = "tryToReceive:134" -> {"Stopped"}
      [] site = "start:163"        -> {"Running"}
      [] site = "start:170"        -> {"Running"}
      [] site = "interrupt:177"    -> {"Stopped"}
      [] site = "stop:220"         -> {"Stopping", "Pausing"}
      [] site = "stop:228"         -> {"Stopped", "Paused"}
      [] site = "setStopped:48"    -> {"Stopped"}
      [] site = "start:69"         -> {"Starting"}
      [] site = "interrupt:87"     -> {"Interrupted"}
      [] site = "pause:101"        -> {"Pausing"}
      [] site = "stop:116"         -> {"Stopping"}
      [] site = "run:195"          -> {"Running"}
      [] site = "run:244"          -> {"Paused"}
      [] site = "run:265"          -> {"Running"}
      [] site = "run:272"          -> {"Stopping"}
      [] OTHER                     -> {}

\* C13: in both processors every change of the lifecycle state is made by
\* one of the setState calls of the processor, and every setState call
\* (those of the exception handlers and of the thread-finished callback
\* included) is made while the caller holds the state mutex.
C13_StepOk ==
    /\ state' # state => sg'.held /\ state' \in WrittenAt(sg'.site)
    /\ tstate' # tstate => tg'.held /\ tstate' \in WrittenAt(tg'.site)

C14_StepOk ==
    /\ ThreadedStart =>
         /\ UNCHANGED <<tqueue, wv, wexc, intrPending, bMustReconfigure,
                        strPropertySetName>>
         /\ CASE tstate = "Stopped" ->
                   /\ tstate' = "Starting"
                   /\ wpc = "none" /\ wpc' = "started"
                   /\ sig' = sig
              [] tstate = "Paused" ->
                   /\ tstate' = "Paused"
                   /\ IF Blocked(wpc)
                      THEN wpc' = Woken(wpc) /\ sig' = sig
                      ELSE wpc' = wpc /\ sig'
              [] OTHER -> UNCHANGED <<tstate, wpc, sig>>
    /\ (wpc = "started" /\ wpc' # wpc) =>
         /\ wpc' = "loopTest"
         /\ tstate' = (IF tstate = "Starting" THEN "Running" ELSE tstate)
    /\ (wpc = "none" /\ wpc' # "none") => (tev'.op = "start" /\ tstate = "Stopped")

C15_StepOk ==
    (tev'.op = "tryToReceive" /\ (tev' # tev \/ Len(tqueue') > Len(tqueue))) =>
        /\ UNCHANGED <<tstate, wv, wexc, intrPending, bMustReconfigure>>
        /\ tg'.last = tg.last /\ tg'.site = tg.site
        /\ IF CanReceive(tqueue)
           THEN /\ Len(tqueue') = Len(tqueue) + 1
                /\ SubSeq(tqueue', 1, Len(tqueue)) = tqueue
                /\ tev'.ret = "true"
                /\ IF Blocked(wpc)
                   THEN wpc' = Woken(wpc) /\ sig' = sig
                   ELSE wpc' = wpc /\ sig'
           ELSE /\ tev'.ret = "false"
                /\ UNCHANGED <<tqueue, sig, wpc>>

C15_ThreadedAdmission == [][C15_StepOk]_vars

\* C15 witness: an object was rejected because the socket was still full
\* while the worker was inside a dispatch.
C15_Witness ==
    /\ tev.op = "tryToReceive" /\ tev.path = "reject" /\ tev.ret = "false"
    /\ wpc = "dispatch" /\ Len(tqueue) = QueueCapacity

\* C16: no lost wake-up. While the operation stays Running, an object
\* accepted by tryToReceive (with the worker blocked on the condition, inside
\* the flow controller loop or inside a dispatch) is followed by a flow
\* controller query of the worker, without any further admission or signal;
\* a check(true) that resets the condition in between is not counted.
C16_NoLostWakeup ==
    [](tg.pend = "yes" /\ tstate = "Running"
         => <>(tg.pend # "yes" \/ tstate # "Running"))

\* C16 witness: an object accepted while the worker was inside a dispatch,
\* whose signal was reset at the top of the next loop round, is being
\* dispatched.
C16_Witness ==
    /\ tg.pend = "no" /\ wpc = "dispatch" /\ ~sig /\ tstate = "Running"
    /\ tev.op = "tryToReceive" /\ tev.path = "accept"
    /\ tg.site = "run:195"

\* C17: the worker of a source operation (no connected input) calls
\* process() on every round without waiting on the condition and looks for a
\* request after each call: after pause() or stop() has acted, at most one
\* further process() call is started; Pausing is left for Paused and Stopping
\* for Stopped, unless interrupt() is called or a callback throws instead of
\* returning; and neither Pausing nor Stopping lasts for ever.
C17_StepOk ==
    ~tHasInputs =>
        /\ (wpc = "loopTest" /\ wpc' # wpc) => wpc' \in {"srcProcess", "finished"}
        /\ wpc' \notin {"waitInput", "blockedInput", "afterWait", "prepare", "dispatch"}
        /\ tg'.after <= 1
        /\ (tstate = "Pausing" /\ tstate' # tstate) =>
             \/ tstate' \in {"Paused", "Interrupted"}
             \/ tstate' = "Stopping" /\ wexc.code \in {"Error", "Finished"}
        /\ (tstate = "Stopping" /\ tstate' # tstate) =>
             \/ tstate' \in {"Stopped", "Interrupted"}
             \/ tstate' = "Paused" /\ wexc.code = "Paused"

C17_SourceLoop ==
    /\ [][C17_StepOk]_vars
    /\ []((~tHasInputs /\ tstate = "Pausing") => <>(tstate # "Pausing"))
    /\ []((~tHasInputs /\ tstate = "Stopping") => <>(tstate # "Stopping"))

\* C17 witness: pause() acted while the worker was about to start process();
\* that one call was made and the operation is now Paused.
C17_Witness ==
    /\ ~tHasInputs /\ tg.after = 1 /\ tg.site = "run:244"
    /\ tstate = "Paused" /\ wpc = "blockedPaused"

\* C18: on a Paused exception with the state not Interrupted the worker sets
\* Paused and waits on the condition (it takes a pending signal or blocks);
\* when the wait ends and the state is still Paused it sets Running and, for
\* a source operation, calls operationResumed(), or, with connected inputs,
\* signals the condition; when the wait ends and the state is no longer
\* Paused it neither sets Running nor calls operationResumed() nor signals.
\* Paused is set, and Paused is turned into Running, by the worker only.
C18_StepOk ==
    /\ (wpc = "catch" /\ wpc' # wpc /\ wexc.code = "Paused" /\ tstate # "Interrupted") =>
         tstate' = "Paused" /\ wpc' = "pausedWait"
    /\ (wpc = "pausedWait" /\ wpc' # wpc) =>
         /\ tstate' = tstate
         /\ IF sig THEN wpc' = "resumeCheck" /\ ~sig'
                   ELSE wpc' = "blockedPaused" /\ ~sig'
    /\ (wpc = "blockedPaused" /\ wpc' # wpc) => wpc' = "resumeCheck"
    /\ (wpc = "resumeCheck" /\ wpc' # wpc) =>
         /\ wpc' = "loopTest"
         /\ IF tstate = "Paused"
            THEN /\ tstate' = "Running"
                 /\ IF tHasInputs
                    THEN sig' /\ tev' = tev
                    ELSE sig' = sig /\ tev'.path = "operationResumed"
            ELSE UNCHANGED <<tstate, sig, tev>>
    /\ (tstate' = "Paused" /\ tstate # "Paused") => wpc = "catch"
    /\ (tstate = "Paused" /\ tstate' = "Running") => wpc = "resumeCheck"

C18_PauseAndResume == [][C18_StepOk]_vars

\* C18 witness: the suspended worker was woken by interrupt() and has gone
\* back to the loop test without setting Running.
C18_Witness ==
    /\ wpc = "loopTest" /\ tstate = "Interrupted" /\ tg.site = "interrupt:87"
    /\ tev.op = "interrupt" /\ tev.path = "Paused" /\ ~intrPending /\ ~sig

\* C19: an Error or Finished exception reaching the handler of run() sets
\* Stopping, emits errorOccured once with the exception's message if and only
\* if the code is Error, and ends the worker loop: the worker makes no other
\* call and the completion callback commits Stopped. Stopped is written by
\* the completion callback only, and errorOccured is emitted by the handler
\* only.
C19_StepOk ==
    /\ (wpc = "catch" /\ wpc' # wpc /\ wexc.code \in {"Error", "Finished"}) =>
         /\ tstate' = "Stopping"
         /\ wpc' = "finished"
         /\ tev'.op = "worker" /\ tev'.path = "stopping"
         /\ tev'.err = (IF wexc.code = "Error" THEN <<wexc.msg>> ELSE <<>>)
    /\ (wpc = "finished" /\ wpc' # wpc) => (wpc' = "exiting" /\ tstate' = "Stopped")
    /\ (wpc = "exiting" /\ wpc' # wpc) => wpc' = "none"
    /\ (tstate' = "Stopped" /\ tstate # "Stopped") => (wpc = "finished" /\ wpc' = "exiting")
    /\ (tev'.err # <<>> /\ tev' # tev) => (wpc = "catch" /\ wexc.code = "Error")

C19_TerminatingException == [][C19_StepOk]_vars

\* C19 witness: an Error raised by the flow controller was reported once, the
\* worker has terminated and the completion callback has set Stopped.
C19_Witness ==
    /\ tev.op = "worker" /\ tev.path = "stopping"
    /\ tev.exc.code = "Error" /\ tev.err = <<tev.exc.msg>>
    /\ tstate = "Stopped" /\ wpc = "none" /\ tg.site = "setStopped:48"
    /\ tqueue # <<>> /\ Head(tqueue).k = "bad"

\* The calls of one finished dispatch: sendSyncEvents() once and first, and
\* process() once, right after it, exactly for a Processable verdict.
Times(calls, c) == Cardinality({i \in DOMAIN calls : calls[i] = c})

DispatchWellFormed(d) ==
    d.v # "none" =>
        /\ d.v # "IncompleteState"
        /\ d.calls # <<>> /\ d.calls[1] = "sendSyncEvents"
        /\ Times(d.calls, "sendSyncEvents") = 1
        /\ Times(d.calls, "process") = (IF d.v = "ProcessableState" THEN 1 ELSE 0)
        /\ d.v = "ProcessableState" => d.calls[2] = "process"

\* C20: with connected inputs, in both processors, every dispatch starts with
\* one sendSyncEvents() call and contains one process() call exactly when the
\* verdict is Processable; an Incomplete verdict ends the loop without any
\* call; the dispatched verdict is the one the flow controller returned; and
\* in the synchronous processor the number of process() calls made since
\* check(true) equals the number of Processable verdicts, less the call that
\* is in progress.
C20_StepOk ==
    /\ (ev'.path = "incomplete" /\ ev' # ev) =>
         /\ sg'.nv = sg.nv /\ handed' = handed
         /\ DispatchFrames' \subseteq DispatchFrames
    /\ (ev'.path = "dispatch" /\ ev' # ev) =>
         \E f \in DispatchFrames' :
            LET fr == stack'[f[1]][f[2]] IN
            /\ queue # <<>> => fr.obj = Head(queue)
            /\ fr.v = FlowVerdict(<<fr.obj>>)
            /\ fr.v # "IncompleteState"
    /\ (wpc = "prepare" /\ wpc' = "loopTest") =>
         /\ FlowVerdict(tqueue) = "IncompleteState"
         /\ tg'.last = NoDispatch /\ wv' = "none" /\ tqueue' = tqueue
    /\ (wpc = "prepare" /\ wpc' = "dispatch") =>
         /\ wv' = FlowVerdict(tqueue) /\ wv' # "IncompleteState"
         /\ tqueue' = Tail(tqueue)
    /\ (wpc = "dispatch" /\ wpc' # wpc) => tg'.last.v = wv
    /\ (wpc # "dispatch" /\ wpc' = "dispatch") => wpc = "prepare"

C20_OneCallPerVerdict ==
    /\ [](DispatchWellFormed(sg.last) /\ DispatchWellFormed(tg.last))
    /\ [](sg.nv = sg.np + Cardinality({f \in DispatchFrames :
                                         stack[f[1]][f[2]].v = "ProcessableState"}))
    /\ [][C20_StepOk]_vars

\* C20 witness: two payload objects and a synchronization tag were received:
\* two Processable verdicts, two process() calls, and a last dispatch that
\* only forwarded the tag.
C20_Witness ==
    /\ sg.nv = 2 /\ sg.np = 2 /\ handed = <<1, 2>> /\ Quiescent
    /\ sg.last = [v |-> "SynchronizedState", calls |-> <<"sendSyncEvents">>]

\* The step of sender t that ends its dispatch (the callback returned or threw).
EndsDispatch(t) == InDispatch(t) /\ stack'[t] # stack[t]

\* The state and the arming the synchronous processor leaves at the end of the
\* dispatch of the verdict v.
SimpleVerdictEnd(v) ==
    /\ v = "PausedState" =>
         /\ ev'.op = "handler" /\ ev'.exc.code = "Paused"
         /\ IF state # "Stopped"
            THEN state' = "Paused" /\ bReset' = bReset
            ELSE state' = "Stopped" /\ ~bReset'
    /\ v = "FinishedState" =>
         /\ ev'.op = "handler" /\ ev'.exc.code = "Finished"
         /\ state' = "Stopped" /\ ~bReset'
    /\ v \in {"ResumedState", "ReconfigurableState"} =>
         IF ev'.op = "handler"
         THEN ev'.exc.code = "Error" /\ state' = "Stopped" /\ ~bReset'
         ELSE state' = state /\ bReset' = bReset
    /\ v = "ResumedState" => sg'.last.calls = <<"sendSyncEvents", "operationResumed">>
    /\ v = "ReconfigurableState" =>
         sg'.last.calls = <<"sendSyncEvents", "applyPropertySet">>

\* The same for the worker of the threaded processor: the dispatch itself
\* writes no state, the handler of run() does.
ThreadedVerdictEnd ==
    /\ (wpc = "dispatch" /\ wpc' # wpc) =>
         /\ UNCHANGED <<tstate, bMustReconfigure, strPropertySetName>>
         /\ wv \in {"PausedState", "FinishedState"} => wpc' = "catch"
         /\ wv \in {"ResumedState", "ReconfigurableState"} =>
              /\ wpc' = "catch" => wexc'.code = "Error"
              /\ wpc' # "catch" => wpc' = "prepare"
         /\ wv = "ResumedState" =>
              tg'.last.calls = <<"sendSyncEvents", "operationResumed">>
         /\ wv = "ReconfigurableState" =>
              tg'.last.calls = <<"sendSyncEvents", "applyPropertySet">>
    /\ (wpc = "catch" /\ wpc' # wpc /\ tg.last.v = "PausedState") =>
         /\ wexc.code = "Paused"
         /\ IF tstate # "Interrupted"
            THEN tstate' = "Paused" /\ wpc' = "pausedWait"
            ELSE tstate' = "Stopping" /\ wpc' = "finished"
    /\ (wpc = "catch" /\ wpc' # wpc /\ tg.last.v = "FinishedState") =>
         /\ wexc.code = "Finished"
         /\ tstate' = "Stopping" /\ wpc' = "finished"
    /\ (wpc = "catch" /\ wpc' # wpc
          /\ tg.last.v \in {"ResumedState", "ReconfigurableState"}) =>
         /\ tstate' = "Stopping" /\ wpc' = "finished"
    /\ (wpc = "finished" /\ wpc' # wpc) => tstate' = "Stopped"

\* C21 (as amended): in both processors the Paused verdict raises the Paused
\* exception, whose handler sets Paused unless the operation was interrupted
\* while the hook ran (synchronous: it is then Stopped and disarmed; threaded:
\* the worker terminates); the Finished verdict raises Finished, and the
\* operation is Stopped and disarmed (synchronous) or Stopping with the worker
\* terminating and the completion callback setting Stopped (threaded); the
\* Resumed and Reconfigurable verdicts call operationResumed() and
\* applyPropertySet() once, and the dispatch changes neither the state nor
\* the arming, nor the name and flag stored by reconfigure(), when the
\* callback returns; when it throws, the operation stops as after any error.
C21_StepOk ==
    /\ \A t \in Senders : EndsDispatch(t) => SimpleVerdictEnd(Top(t).v)
    /\ ThreadedVerdictEnd

C21_VerdictOutcome == [][C21_StepOk]_vars

\* C21 witness: the synchronous processor has dispatched a Paused verdict:
\* operationPaused() threw, and the operation is Paused and still armed.
C21_Witness ==
    /\ sg.last = [v |-> "PausedState", calls |-> <<"sendSyncEvents", "operationPaused">>]
    /\ ev.op = "handler" /\ ev.path = "paused"
    /\ state = "Paused" /\ bReset /\ sg.site = "tryToReceive:123"

\* C21 as stated: every Paused verdict ends in Paused, every Finished verdict
\* in Stopped, every Resumed verdict in Running, and a Reconfigurable verdict
\* changes neither the state nor the arming.
C21_Original ==
    [][/\ \A t \in Senders : EndsDispatch(t) =>
            /\ Top(t).v = "PausedState" => state' = "Paused"
            /\ Top(t).v = "FinishedState" => (state' = "Stopped" /\ ~bReset')
            /\ Top(t).v = "ResumedState" => state' = "Running"
            /\ Top(t).v = "ReconfigurableState" =>
                 (state' = state /\ bReset' = bReset)
       /\ (wpc = "catch" /\ wpc' # wpc /\ tg.last.v = "PausedState") =>
            tstate' = "Paused"
       /\ (wpc = "catch" /\ wpc' # wpc) =>
            tg.last.v \notin {"ResumedState", "ReconfigurableState"}]_vars

\* C30: start() of the synchronous processor leaves Pausing alone, leaves a
\* Paused operation with connected inputs Paused, turns a Paused operation
\* without connected inputs to Running and calls operationResumed() once,
\* reporting nothing that the hook throws, and turns every other state to
\* Running at once; it calls no hook in the other cases and never changes the
\* arming, the recursion guard, the socket or a sender's frames.
C30_StepOk ==
    Start =>
        /\ state = "Pausing" => (state' = "Pausing" /\ ev' = ControlEvent)
        /\ (state = "Paused" /\ hasInputs) => (state' = "Paused" /\ ev' = ControlEvent)
        /\ (state = "Paused" /\ ~hasInputs) =>
             /\ state' = "Running"
             /\ ev' = Event("control", "operationResumed", "none", <<>>)
        /\ state \notin {"Pausing", "Paused"} =>
             (state' = "Running" /\ ev' = ControlEvent)
        /\ UNCHANGED <<bReset, bProcessing, hasInputs, queue, stack, cpc>>

C30_SimpleStart == [][C30_StepOk]_vars

\* C30 witness: start() has just resumed a Paused operation without connected
\* inputs: Running, operationResumed() called, the arming as it was.
C30_Witness ==
    /\ state = "Running" /\ ~hasInputs /\ sg.site = "start:163"
    /\ ev = Event("control", "operationResumed", "none", <<>>)

\* The subnet test of the documentation: (t & ~0x1f) == net
InSubnet(t, net) == And(t, Not(Lit(31))) = Lit(net)

\* C23 as stated: isPrimitive(t) is true exactly when (t & ~0x1f) == 0.
C23_Original == tres.done => (tres.prim = InSubnet(tag, 0))

\* C24 as stated: isControlType(t) is true exactly for 0x20..0x3F,
\* isNonControlType(t) is its negation, isMatrixType(t) is true exactly for
\* 0x40..0x7F, and no type id passes two of the three tests.
C24_Original ==
    tres.done =>
        /\ tres.ctrl = (LessEq(Lit(32), tag) /\ LessEq(tag, Lit(63)))
        /\ tres.nonctrl = ~tres.ctrl
        /\ tres.matrix = (LessEq(Lit(64), tag) /\ LessEq(tag, Lit(127)))
        /\ ~(tres.prim /\ tres.ctrl) /\ ~(tres.prim /\ tres.matrix)
        /\ ~(tres.ctrl /\ tres.matrix)

\* The constructors that take no type id.
DefaultTagged(s) == made[s].by \in {"PiiVariant(T)", "PiiVariant(const T&)"}

\* C22 (as amended): the vtable of a Variant follows the C++ type of the
\* value it was constructed from, not its type id: a Variant made from a value
\* of one of the twelve primitive types has a null vtable, also under a
\* caller-supplied type id (the tags of createStartTag, createEndTag,
\* createStopTag and createPauseTag carry a control id and a null vtable); a
\* Variant made from a value of a registered type has the vtable of that
\* type (createReconfigurationTag); the invalid Variant has a null vtable;
\* for the constructors that take no type id the id is primitive exactly when
\* the vtable is null; and a copy has the vtable and the id of its source.
C22_VTableFollowsStoredType ==
    \A s \in Slots : Live(s) =>
        /\ made[s].T \in PrimTypes => vs[s].vt = "null" /\ vs[s].st.k = "bytes"
        /\ made[s].T \in ObjTypes =>
             /\ vs[s].vt = made[s].T
             /\ vs[s].st.k = (IF SizeOf(made[s].T) <= InternalBufferSize
                              THEN "obj" ELSE "ptr")
        /\ made[s].by = "PiiVariant()" =>
             vs[s].vt = "null" /\ Type(vs[s]) = InvalidType
        /\ made[s].by \in TagFactories =>
             vs[s].vt = "null" /\ IsControlType(Type(vs[s]))
        /\ made[s].by = "createReconfigurationTag" =>
             vs[s].vt = "QString" /\ Type(vs[s]) = ReconfigurationTagType
        /\ DefaultTagged(s) =>
             /\ Type(vs[s]) = TypeId(made[s].T)
             /\ IsPrimitive(Type(vs[s])) <=> vs[s].vt = "null"

\* C22 witness: a start tag (control id, null vtable) next to a
\* reconfiguration tag (control id, the vtable of QString).
C22_Witness ==
    /\ made["x"].by = "createStartTag" /\ vs["x"].vt = "null"
    /\ vs["x"].tag = SynchronizationTagType
    /\ made["y"].by = "createReconfigurationTag" /\ vs["y"].vt = "QString"

\* C22 as stated: a type id in 0x00..0x1F goes with a null vtable, and a
\* valid type id outside that range with a non-null vtable.
C22_Original ==
    \A s \in Slots : Live(s) =>
        /\ InSubnet(Type(vs[s]), 0) => vs[s].vt = "null"
        /\ (IsValid(Type(vs[s])) /\ ~InSubnet(Type(vs[s]), 0)) => vs[s].vt # "null"

\* C25: convertTo is reflexive: when the tag of the Variant equals the tag of
\* T, convertTo<T> returns true with the stored value and does not consult
\* the converter registry, whatever is registered for the pair.
ConvertToCalled == cres.op \in {"convertTo(ok)", "convertTo(value)"}
C25_Reflexive ==
    (ConvertToCalled /\ cres.before.tag = TypeId(cres.T)) =>
        /\ cres.ret
        /\ ~cres.consulted
        /\ cres.called = NullFunction
        /\ made["x"].T = cres.T => cres.value = [pv |-> made["x"].pv, ov |-> made["x"].ov]
C25_Witness ==
    /\ cres.op = "convertTo(ok)" /\ cres.T = "int"
    /\ cres.before.tag = IntType /\ made["x"].T = "int"
    /\ Converter(reg, IntType, IntType).name = "userConverterFails"
    /\ cres.ret /\ ~cres.consulted
    /\ cres.value.pv = <<1, 0, 0, 0>>

\* C26 (as stated): when the tags differ and no converter is registered or
\* the registered converter returns false, convertTo<T>(ok) sets ok to
\* false and returns a default-constructed T.
ConvertToFailed ==
    /\ ConvertToCalled
    /\ cres.before.tag # TypeId(cres.T)
    /\ \/ cres.called = NullFunction
       \/ cres.called.name \in {"userConverterFails", "userConverterWritesAndFails"}
C26_Original ==
    (ConvertToFailed /\ cres.op = "convertTo(ok)") =>
        /\ ~cres.ret
        /\ cres.value = DefaultValue(cres.T)

\* C26: when the tags differ and no converter is registered, or the
\* registered converter returns false, convertTo<T>(ok) sets ok to false and
\* convertTo<T>(out) returns false; the value is the default-constructed T
\* (the caller's out) when no converter is registered, and what the converter
\* left in it when the converter returned false; the Variant is unchanged.
C26_FailureIsResult ==
    ConvertToFailed =>
        /\ ~cres.ret
        /\ cres.consulted
        /\ cres.called = Converter(reg, cres.before.tag, TypeId(cres.T))
        /\ cres.out = (IF cres.op = "convertTo(ok)" THEN DefaultValue(cres.T)
                       ELSE OtherValue(cres.T))
        /\ cres.called.name # "userConverterWritesAndFails" => cres.value = cres.out
        /\ cres.called.name = "userConverterWritesAndFails" => cres.value = OtherValue(cres.T)
        /\ vs["x"] = cres.before
C26_Witness ==
    /\ cres.op = "convertTo(ok)" /\ cres.T = "int"
    /\ cres.before.tag = UnsignedCharType
    /\ cres.called.name = "userConverterWritesAndFails"
    /\ ~cres.ret
    /\ cres.value = OtherValue("int") /\ cres.value # DefaultValue("int")
    /\ vs["x"] = cres.before

\* C27: converter(from, to) is the function most recently set for exactly
\* that pair, null if none was set or the last one set was null;
\* canConvert(from, to) is converter(from, to) != null; a setConverter call
\* for one pair leaves the converter of every other pair as it was.
AllPairs == PairTags \X PairTags
C27_StepOk ==
    nset' # nset =>
        \A p \in AllPairs :
            p # <<cres'.from, cres'.to>> =>
                Converter(reg', p[1], p[2]) = Converter(reg, p[1], p[2])
C27_Registry ==
    /\ [](\A p \in AllPairs :
            /\ Converter(reg, p[1], p[2]) = lastSet[p]
            /\ CanConvert(reg, p[1], p[2]) = (lastSet[p] # NullFunction))
    /\ [][C27_StepOk]_vars
C27_Witness ==
    /\ nset = 2
    /\ lastSet[<<UnsignedCharType, IntType>>] = NullFunction
    /\ Converter(reg, UnsignedCharType, IntType) = NullFunction
    /\ lastSet[<<U32(2, 2), CharType>>].name = "userConverterFails"
    /\ Converter(reg, U32(2, 2), CharType).name = "userConverterFails"
    /\ ~CanConvert(reg, IntType, IntType)
    /\ CanConvert(reg, IntType, UnsignedCharType)

\* The live Variants that own a heap cell.
Owners(a) == {s \in Slots : Live(s) /\ vs[s].st.k = "ptr" /\ vs[s].st.a = a}

\* C28: every live Variant that holds a value of a registered type, however
\* it got it (construction, copy construction or assignment) and whatever
\* happened to the Variant it was copied from since, holds a value equal to
\* the one its source held: in its buffer for a small type, in a heap cell
\* of its own for a large type. No heap cell has two owners, every allocated
\* cell has an owner (whose destruction or reassignment frees it), and no cell
\* is freed that is not allocated.
C28_DeepCopy ==
    /\ ~herr
    /\ \A a \in Addrs : heap[a].live <=> Cardinality(Owners(a)) = 1
    /\ \A a \in Addrs : Cardinality(Owners(a)) <= 1
    /\ \A s \in Slots : (Live(s) /\ made[s].T \in ObjTypes) =>
         ObjectValue(made[s].T, vs[s].st, heap) = made[s].ov

\* C28 witness: a PiiMatrix<int> was copied into y while the original lived
\* in x, and the original is destroyed: the copy still owns its cell and value.
C28_Witness ==
    /\ ~Live("x") /\ Live("y") /\ made["y"].T = "PiiMatrix<int>"
    /\ made["y"].by = "PiiVariant(const T&)"
    /\ vs["y"].st.k = "ptr" /\ vs["y"].st.a = 2
    /\ heap[2] = [v |-> "A", live |-> TRUE] /\ ~heap[1].live

\* C29: a Variant constructed from a value v of one of the twelve primitive
\* types has the type id of that type, or the type id the caller supplied,
\* and valueAs<T>() returns v; this stays so for every copy of it.
C29_StepOk ==
    /\ \A s \in Slots : \A T \in PrimTypes : \A v \in PrimValues(T) :
         Construct(s, T, v) =>
            (Type(vs'[s]) = TypeId(T) /\ ValueAs(vs'[s], T) = v)
    /\ \A s \in Slots : \A T \in PrimTypes : \A v \in PrimValues(T) :
         \A t \in CustomTags :
            ConstructTagged(s, T, v, t) =>
               (Type(vs'[s]) = t /\ ValueAs(vs'[s], T) = v)

C29_PrimitiveRoundTrip ==
    /\ [](\A s \in Slots : (Live(s) /\ made[s].T \in PrimTypes) =>
            /\ ValueAs(vs[s], made[s].T) = made[s].pv
            /\ DefaultTagged(s) => Type(vs[s]) = TypeId(made[s].T))
    /\ [][C29_StepOk]_vars

\* C29 witness: a qint64 with all bits set under the custom type id
\* 0x55378008, and a bool under its own type id.
C29_Witness ==
    /\ made["x"] = [by |-> "PiiVariant(T, typeId)", T |-> "qint64",
                    pv |-> [i \in 1..8 |-> 255], ov |-> ""]
    /\ Type(vs["x"]) = U32(21815, 32776)
    /\ ValueAs(vs["x"], "qint64") = [i \in 1..8 |-> 255]
    /\ made["y"].by = "PiiVariant(T)" /\ made["y"].T = "bool"
    /\ Type(vs["y"]) = BoolType /\ ValueAs(vs["y"], "bool") = <<1>>

\* C31: stop() and pause() of the synchronous processor act only on a Running
\* operation and otherwise change nothing and call no hook; without connected
\* inputs the state becomes the final state and the matching hook is called
\* once, after the unlock, whatever it throws being swallowed; with connected
\* inputs the state becomes Stopping / Pausing and no hook is called.
StopHookOf(finalState) ==
    IF finalState = "Paused" THEN "operationPaused" ELSE "operationStopped"
C31_StepOk ==
    /\ \A f \in {"Stopped", "Paused"} :
         StopTo(f) =>
            /\ UNCHANGED <<bReset, bProcessing, queue, stack, handed, dataIds>>
            /\ ev'.path = "none" /\ ev'.err = <<>>
            /\ state # "Running" => UNCHANGED <<state, cpc, sg>>
            /\ (state = "Running" /\ ~hasInputs) =>
                 (state' = f /\ cpc' = StopHookOf(f))
            /\ (state = "Running" /\ hasInputs) =>
                 /\ state' = (IF f = "Stopped" THEN "Stopping" ELSE "Pausing")
                 /\ cpc' = "idle"
    /\ cpc # "idle" =>
         \/ UNCHANGED svars
         \/ /\ StopHook
            /\ cpc' = "idle"
            /\ ev' = Event("control", cpc, "none", <<>>)
            /\ UNCHANGED <<state, bReset, bProcessing, queue, stack>>
    /\ (cpc = "idle" /\ cpc' # "idle") =>
         \E f \in {"Stopped", "Paused"} : StopTo(f) /\ state = "Running" /\ ~hasInputs
C31_SimpleStop ==
    /\ [](cpc # "idle" => (~hasInputs /\ state = (IF cpc = "operationPaused"
                                                  THEN "Paused" ELSE "Stopped")))
    /\ [][C31_StepOk]_vars

\* C31 witness: pause() on a Running operation without connected inputs has
\* set Paused and called operationPaused().
C31_Witness ==
    /\ ev = Event("control", "operationPaused", "none", <<>>)
    /\ state = "Paused" /\ ~hasInputs /\ cpc = "idle"
    /\ sg.site = "stop:228"

\* C32: interrupt() of the synchronous processor sets Stopped and disarms the
\* processor from any state; a disarmed processor is armed again by check(true)
\* only, discards every admission until then, and a loop that is in flight
\* starts no flow controller query and no process() call once its dispatch has
\* ended.
C32_StepOk ==
    /\ Interrupt =>
         /\ state' = "Stopped" /\ ~bReset'
         /\ UNCHANGED <<bProcessing, queue, stack, handed, dataIds>>
    /\ (~bReset /\ bReset') => Check(TRUE)
    /\ (~bReset /\ ev'.op = "tryToReceive") =>
         /\ ev'.path = "discard" /\ ev'.ret = "true"
         /\ UNCHANGED <<state, bReset, bProcessing, queue, stack, handed, dataIds>>
    /\ \A t \in Senders :
         (~bReset /\ InDispatch(t) /\ stack'[t] # stack[t]) =>
            /\ stack'[t] = Below(t)
            /\ ev'.path \in {"disarmed", "paused", "stopped"}
            /\ ev'.ret = "true"
            /\ UNCHANGED <<queue, handed, dataIds>>
            /\ ~bReset' /\ ~bProcessing'
C32_SimpleInterrupt == [][C32_StepOk]_vars

\* C32 witness: interrupt() was called during a dispatch; the loop has ended at
\* its test of the arming flag and has left an object in the socket.
C32_Witness ==
    /\ ev = Event("loop", "disarmed", "true", <<>>)
    /\ state = "Stopped" /\ sg.site = "interrupt:177"
    /\ ~bReset /\ ~excSeen /\ ~bProcessing
    /\ queue # <<>> /\ Quiescent

\* C33 (as stated): a check() call made while a process() call of the
\* operation is in progress does not make a tryToReceive call start a second,
\* overlapping dispatch: at most one frame is inside the dispatch section.
C33_Original == Cardinality(DispatchFrames) <= 1

\* C34 (as stated): an admission that is rejected changes nothing: the
\* lifecycle state, the arming flag, the recursion guard flag and the socket
\* are after the call what they were before it.
C34_Original ==
    [][(ev'.op = "tryToReceive" /\ ev'.path = "reject") =>
          UNCHANGED <<state, bReset, bProcessing, queue>>]_vars

\* C38: the recursion guard flag of the synchronous processor is false
\* whenever no thread is inside the dispatch section (after a normal end of
\* the loop, after a handled exception of the dispatch or of the flow
\* controller), and an admission to an armed operation with no thread inside
\* tryToReceive never returns at the guard.
C38_StepOk ==
    (Quiescent /\ ev'.op = "tryToReceive" /\ bReset /\ CanReceive(queue)) =>
        ev'.path \in {"dispatch", "incomplete", "fcThrow"}
C38_GuardNotLeftSet ==
    /\ [](DispatchFrames = {} => ~bProcessing)
    /\ [][C38_StepOk]_vars

\* C38 witness: the flow controller raised an error in the second round of
\* the loop; the handler has run, nobody is inside tryToReceive and the flag
\* is false.
C38_Witness ==
    /\ ev.op = "handler" /\ ev.exc.code = "Error" /\ ev.err # <<>>
    /\ sg.last.v = "ProcessableState"
    /\ queue # <<>> /\ Head(queue).k = "bad"
    /\ Quiescent /\ ~bProcessing

\* The lifecycle hooks and process() among the calls of a dispatch.
HooksOf(calls) ==
    {calls[i] : i \in DOMAIN calls} \cap
    {"process", "operationPaused", "operationStopped", "operationResumed"}
OwnHook(d) ==
    /\ d.v = "PausedState" => HooksOf(d.calls) = {"operationPaused"}
    /\ d.v = "FinishedState" => HooksOf(d.calls) = {"operationStopped"}
    /\ d.v = "ResumedState" => HooksOf(d.calls) = {"operationResumed"}
    /\ d.v = "ProcessableState" => HooksOf(d.calls) = {"process"}

C35_Original == [][tstate = "Paused" => tstate' = "Paused"]_vars

\* C37: start() on a Stopped operation of the threaded processor leads to
\* Running, or to Interrupted / Stopped when interrupt() intervenes; the
\* operation is never in Starting without a worker thread that is about to
\* confirm it, also when start() follows the completion callback of the
\* previous worker; a worker is launched only when no other worker exists.
C37_Launch ==
    (wpc' = "started" /\ wpc # "started") =>
        /\ wpc = "none"
        /\ tstate = "Stopped" /\ tstate' = "Starting"
        /\ tev'.op = "start"
C39_Original ==
    [][(wpc = "srcClear" /\ wpc' = "srcCheck") =>
         ~(rpc = "idle" /\ bMustReconfigure /\ strPropertySetName \notin {"", wv})]_vars

====
